---- MODULE Spec2Model ----
(***************************************************************************)
(* Boomer: destructible terrain, projectile simulator and the Game's      *)
(* explosion resolver (src/js/player.js, src/js/weapons.js,                *)
(* src/unnamed/part_001).                                                  *)
(*                                                                         *)
(* Numbers.  The source computes with doubles.  Every real quantity of the *)
(* model (coordinates, radii, powers, resistances, speeds) is a fixed-point*)
(* integer counting TENTHS: the value 2.5 is the integer 25.  Cell indices *)
(* (px, py, dx, dy, idx) and counts are plain integers.  Comparisons of    *)
(* expressions with a square root are made on the squares, which is exact. *)
(***************************************************************************)
EXTENDS Integers, Sequences, FiniteSets, TLC

\* ------------------------------------------------------------------ bounds
\* The world of the model is a few pixels wide (the game's is 1200 x 700).
WORLD_WIDTH == 6
WORLD_HEIGHT == 5
\* Number of terrain calls one behaviour of SpecTerrain makes.
MaxCalls == 2
\* Number of fire calls and of update calls one behaviour of Spec makes.
MaxFires == 2
MaxTicks == 4
\* The actors' box, in tenths of a pixel (the game's is 20 x 34 pixels).
PLAYER_WIDTH == 10
PLAYER_HEIGHT == 20
\* Number of frames one behaviour of SpecGame runs.
MaxFrames == 4
\* Number of fire calls the players make in one behaviour of SpecGame.
MaxShots == 3
\* The frames and the fire calls of a behaviour of the human's fire control,
\* and the timestamp of the frame before its first.
MaxControlFrames == 5
MaxControlShots == 3
StartTime == 1000

\* ---------------------------------------------------------------- constants
\* MAX_HEALTH (100), in tenths of a health point.
MAX_HEALTH == 1000
\* ROUNDS_TO_WIN
ROUNDS_TO_WIN == 3

\* --------------------------------------------------------------- materials
AIR == 0
DIRT == 1
ROCK == 2
GRASS == 3
SAND == 4
BRICK == 5
LAVA == 6
SNOW == 7

MAT == {AIR, DIRT, ROCK, GRASS, SAND, BRICK, LAVA, SNOW}

\* Destruction resistance per material, in tenths.
MAT_RESISTANCE ==
    (AIR :> 0) @@ (DIRT :> 10) @@ (ROCK :> 25) @@ (GRASS :> 8) @@
    (SAND :> 6) @@ (BRICK :> 20) @@ (LAVA :> 0) @@ (SNOW :> 4)

VARIABLES
    data,       \* Terrain.data: cell index (py * width + px) -> material
    dirty,      \* Terrain.dirty
    painted,    \* the grid as the map generator painted it (history)
    before,     \* the grid before the last terrain call (history)
    calls,      \* number of terrain calls made so far
    last,       \* the last terrain call: its arguments and result (history)
    rendered,   \* the grid as the last completed rebuild drew it (history)
    projectiles,        \* WeaponSystem.projectiles
    pendingExplosions,  \* WeaponSystem.pendingExplosions
    hitscanTracers,     \* WeaponSystem.hitscanTracers
    wrapScreen,         \* WeaponSystem.wrapScreen
    players,            \* the actors: index -> Player
    nextPid,            \* identity given to the next projectile (history)
    nextEid,            \* identity given to the next explosion event (history)
    fires,              \* number of fire calls made so far
    ticks,              \* number of update calls made so far
    frame,              \* the frame time dt (ms) the caller's loop runs at
    detonated,          \* the projectiles _explode was called on before the last call (history)
    op,                 \* the last WeaponSystem call and what it did (history)
    state,              \* Game.state
    resolved,           \* the events the Game's resolver has applied, in order (history)
    ctl                 \* the human player's weapon handling: weapon, ammo, timers, mode

tvars == <<data, dirty, painted, before, calls, last, rendered>>

wvars == <<projectiles, pendingExplosions, hitscanTracers, wrapScreen, players,
           nextPid, nextEid, fires, ticks, frame, detonated, op>>

gvars == <<state, resolved, ctl>>

vars == <<tvars, wvars, gvars>>

\* ------------------------------------------------------------ number helpers
\* Math.round of a value in tenths: nearest integer, halves towards +infinity.
Round(v) == (v + 5) \div 10

\* Math.ceil of a value in tenths.
Ceil(v) == -((-v) \div 10)

\* ------------------------------------------------------------------ Terrain
Cells == 0 .. (WORLD_WIDTH * WORLD_HEIGHT - 1)

\* A bounds test on the cell's index in the grid only.
InBoundsIndexOnly(x, y) == y * WORLD_WIDTH + x \in 0 .. (WORLD_WIDTH * WORLD_HEIGHT - 1)

InBounds(x, y) == ~(x < 0 \/ x >= WORLD_WIDTH \/ y < 0 \/ y >= WORLD_HEIGHT)

\* Terrain.get(x, y): AIR for out-of-bounds.
Get(d, x, y) ==
    IF x < 0 \/ x >= WORLD_WIDTH \/ y < 0 \/ y >= WORLD_HEIGHT
    THEN AIR
    ELSE d[y * WORLD_WIDTH + x]

\* Terrain.isSolid(x, y)
IsSolid(d, x, y) == Get(d, x, y) # AIR /\ Get(d, x, y) # LAVA

\* Terrain.isLava(x, y)
IsLava(d, x, y) == Get(d, x, y) = LAVA

\* v | 0 of a coordinate in tenths: the fraction is dropped, towards zero.
ToInt(v) == IF v >= 0 THEN v \div 10 ELSE -((-v) \div 10)

\* Terrain.get(x, y), Terrain.isSolid(x, y) and Terrain.isLava(x, y) for
\* coordinates in tenths: x = x | 0; y = y | 0; and then as above.
GetAt(d, xf, yf) == Get(d, ToInt(xf), ToInt(yf))
IsSolidAt(d, xf, yf) == GetAt(d, xf, yf) # AIR /\ GetAt(d, xf, yf) # LAVA
IsLavaAt(d, xf, yf) == GetAt(d, xf, yf) = LAVA

\* Terrain.set(x, y, mat) for coordinates in tenths: the grid and the dirty
\* flag after the call.
SetAt(d, flag, xf, yf, mat) ==
    IF ~InBounds(ToInt(xf), ToInt(yf)) THEN [data |-> d, dirty |-> flag]
    ELSE [data |-> [d EXCEPT ![ToInt(yf) * WORLD_WIDTH + ToInt(xf)] = mat],
          dirty |-> TRUE]

\* Terrain.clear(): the grid and the dirty flag after the call.
TerrainClear(d, flag) == [data |-> [i \in Cells |-> AIR], dirty |-> TRUE]

\* Terrain.rebuild(): nothing when the grid is not dirty, else the grid is
\* drawn and the flag cleared.  The dirty flag and the grid drawn after the call.
Rebuild(d, flag, drawn) ==
    IF ~flag THEN [dirty |-> flag, rendered |-> drawn]
    ELSE [dirty |-> FALSE, rendered |-> d]

\* A destroyCircle that leaves the dirty flag as it was.
DirtyAfterDestroyKept(flag, destroyed) == flag

\* if (destroyed > 0) this.dirty = true;
DirtyAfterDestroy(flag, destroyed) == IF destroyed > 0 THEN TRUE ELSE flag

\* MAT_RESISTANCE[mat] || 1  (a resistance of 0 reads as 1.0)
Resistance(mat) == IF MAT_RESISTANCE[mat] = 0 THEN 10 ELSE MAT_RESISTANCE[mat]

\* The comparison with the falloff applied to the resistance instead of the power.
PowerReachesFalloffOnResistance(dx, dy, radius, power, resistance) ==
    LET d2  == dx * dx + dy * dy
        lhs == (resistance - power) * radius
    IN  /\ radius > 0
        /\ (lhs <= 0 \/ 36 * resistance * resistance * d2 >= lhs * lhs)

\* The comparison without the falloff over the distance.
PowerReachesNoFalloff(dx, dy, radius, power, resistance) ==
    radius > 0 /\ power >= resistance

\* effectivePower >= resistance, with
\*   distFrac = sqrt(dx*dx + dy*dy) / radius, effectivePower = power * (1 - distFrac * 0.6).
\* radius = 0 makes distFrac NaN (0/0) and the comparison false.  For radius > 0 and
\* power >= 0 the comparison is (power - resistance) * radius >= 0.6 * power * sqrt(d2),
\* decided on the squares (radius, power, resistance in tenths; d2 in whole cells).
PowerReaches(dx, dy, radius, power, resistance) ==
    LET d2  == dx * dx + dy * dy
        lhs == (power - resistance) * radius
    IN  /\ radius > 0
        /\ lhs >= 0
        /\ lhs * lhs >= 36 * power * power * d2

\* The loop body without the test for LAVA.
CellDestroyedNoLavaSkip(d, cx, cy, dx, dy, radius, power) ==
    /\ ~(100 * (dx * dx + dy * dy) > radius * radius)
    /\ InBounds(cx + dx, cy + dy)
    /\ d[(cy + dy) * WORLD_WIDTH + (cx + dx)] # AIR
    /\ PowerReaches(dx, dy, radius, power,
                    Resistance(d[(cy + dy) * WORLD_WIDTH + (cx + dx)]))

\* The body of destroyCircle's double loop for the offset (dx, dy): TRUE iff the
\* cell (cx + dx, cy + dy) is set to AIR.  cx, cy are the rounded centre.
CellDestroyed(d, cx, cy, dx, dy, radius, power) ==
    /\ ~(100 * (dx * dx + dy * dy) > radius * radius)
    /\ InBounds(cx + dx, cy + dy)
    /\ d[(cy + dy) * WORLD_WIDTH + (cx + dx)] # AIR
    /\ d[(cy + dy) * WORLD_WIDTH + (cx + dx)] # LAVA
    /\ PowerReaches(dx, dy, radius, power,
                    Resistance(d[(cy + dy) * WORLD_WIDTH + (cx + dx)]))

\* The offsets (dx, dy) of the double loop whose cell is destroyed.
DestroyedOffsets(d, cxf, cyf, radius, power) ==
    LET cx == Round(cxf)
        cy == Round(cyf)
        r  == Ceil(radius)
    IN  {o \in (-r .. r) \X (-r .. r) :
            CellDestroyed(d, cx, cy, o[1], o[2], radius, power)}

\* A destroyed cell of rock or brick left as dirt.
DestroyedMaterialRubble(mat) == IF mat \in {ROCK, BRICK} THEN DIRT ELSE AIR

\* What a destroyed cell is set to.
DestroyedMaterial(mat) == AIR

\* Terrain.destroyCircle(cx, cy, radius, power): the grid after the call and the
\* number of cells destroyed.
DestroyCircle(d, cxf, cyf, radius, power) ==
    LET cx   == Round(cxf)
        cy   == Round(cyf)
        offs == DestroyedOffsets(d, cxf, cyf, radius, power)
        hit  == {(cy + o[2]) * WORLD_WIDTH + (cx + o[1]) : o \in offs}
    IN  [data      |-> [i \in Cells |-> IF i \in hit THEN DestroyedMaterial(d[i]) ELSE d[i]],
         destroyed |-> Cardinality(offs)]

Max(a, b) == IF a >= b THEN a ELSE b

\* Math.sqrt of n (the square of a length in tenths), cut to whole tenths.
ISqrt(n) == CHOOSE r \in 0 .. 400 : r * r <= n /\ n < (r + 1) * (r + 1)

\* dist(x1, y1, x2, y2) in tenths.
Dist(x1, y1, x2, y2) == ISqrt((x2 - x1) * (x2 - x1) + (y2 - y1) * (y2 - y1))

\* A lerp that ignores t and returns its upper end.
LerpUpperEnd(a, b, t) == b

\* lerp(a, b, t), t in tenths.
Lerp(a, b, t) == a + ((b - a) * t) \div 10

\* v * 0.6, cut towards zero.
Restitution(v) == IF v >= 0 THEN (v * 6) \div 10 ELSE -(((-v) * 6) \div 10)

\* ---------------------------------------------------------------- weapons
\* Weapon descriptors (WEAPONS of constants.js, and the melee digger the Game
\* fires).  Lengths and speeds are scaled to the small world and counted in
\* tenths; `gravity` is the per-tick velocity gain weapon.gravity * GRAVITY * 10;
\* times are in ms.  A field the descriptor leaves undefined is 0 / FALSE.
\* Cooldowns, charge and sight times are scaled to the short frames and the
\* ammo counts to the short rounds, their order kept; ammo is <<>> for null
\* (unlimited) and <<n>> for n rounds.
BaseWeapon ==
    [id |-> "none", damage |-> 0, blastRadius |-> 0, terrainDestruct |-> 0,
     speed |-> 0, gravity |-> 0, knockback |-> 0, pellets |-> 1, bounces |-> 0,
     fuseTime |-> 0, maxRange |-> 0, chargeable |-> FALSE, minSpeed |-> 0,
     maxSpeed |-> 0, hitscan |-> FALSE, melee |-> FALSE, meleeRange |-> 0,
     clusterCount |-> 0, subBlastRadius |-> 0, subDamage |-> 0,
     subTerrainDestruct |-> 0, mineLifetime |-> 0, mineProximity |-> 0,
     cooldown |-> 0, ammo |-> <<>>, sighted |-> FALSE, maxChargeTime |-> 0,
     maxSightTime |-> 0]

WEAPONS ==
    [rocket |->
        [BaseWeapon EXCEPT !.id = "rocket", !.damage = 35, !.blastRadius = 20,
            !.terrainDestruct = 10, !.speed = 15, !.knockback = 80,
            !.cooldown = 32],
     shotgun |->
        [BaseWeapon EXCEPT !.id = "shotgun", !.damage = 9, !.blastRadius = 10,
            !.terrainDestruct = 5, !.speed = 20, !.gravity = 2, !.knockback = 25,
            !.pellets = 2, !.maxRange = 30, !.cooldown = 16],
     grenade |->
        [BaseWeapon EXCEPT !.id = "grenade", !.damage = 28, !.blastRadius = 20,
            !.terrainDestruct = 8, !.speed = 20, !.gravity = 5, !.knockback = 60,
            !.bounces = 1, !.fuseTime = 64, !.chargeable = TRUE,
            !.minSpeed = 10, !.maxSpeed = 20, !.cooldown = 32,
            !.maxChargeTime = 48, !.ammo = <<2>>],
     sniper |->
        [BaseWeapon EXCEPT !.id = "sniper", !.damage = 65, !.blastRadius = 10,
            !.terrainDestruct = 3, !.speed = 30, !.knockback = 30,
            !.hitscan = TRUE, !.cooldown = 48, !.sighted = TRUE,
            !.maxSightTime = 64, !.ammo = <<1>>],
     cluster |->
        [BaseWeapon EXCEPT !.id = "cluster", !.damage = 15, !.blastRadius = 20,
            !.terrainDestruct = 7, !.speed = 20, !.gravity = 10, !.knockback = 40,
            !.chargeable = TRUE, !.minSpeed = 10, !.maxSpeed = 20,
            !.clusterCount = 2, !.subBlastRadius = 10, !.subDamage = 15,
            !.subTerrainDestruct = 5, !.mineLifetime = 64, !.mineProximity = 15,
            !.cooldown = 48, !.maxChargeTime = 48, !.ammo = <<1>>],
     digger |->
        [BaseWeapon EXCEPT !.id = "digger", !.damage = 12, !.blastRadius = 10,
            !.terrainDestruct = 10, !.knockback = 20, !.melee = TRUE,
            !.meleeRange = 30]]

\* WEAPON_LIST of constants.js, by weapon id; a weaponIndex counts from 0.
WEAPON_LIST == <<"rocket", "shotgun", "grenade", "sniper", "cluster">>

\* ------------------------------------------------------ the human's weapon
\* The weapon a weaponIndex selects.
WeaponAt(idx) == WEAPONS[WEAPON_LIST[idx + 1]]

\* _initAmmo(): the ammo count of every listed weapon, from its descriptor.
InitAmmo == [id \in {WEAPON_LIST[k] : k \in DOMAIN WEAPON_LIST} |-> WEAPONS[id].ammo]

\* The weapon handling fields of a Player after its constructor or reset(): the
\* first weapon, full ammo, no shot made, no charge and no sighting, mine mode
\* off.  now is the timestamp of the last frame and shot the fire call that
\* frame made for the human (history).
Control(now) ==
    [weaponIndex |-> 0, ammo |-> InitAmmo, lastFireTime |-> 0, charging |-> FALSE,
     chargeStart |-> 0, sighting |-> FALSE, sightStart |-> 0,
     clusterMineMode |-> FALSE, now |-> now,
     shot |-> [fired |-> FALSE, weapon |-> "none", dead |-> FALSE, since |-> 0,
               cooldown |-> 0, hadAmmo |-> FALSE, mineMode |-> FALSE, pid |-> 0,
               aiFired |-> FALSE, aiDead |-> FALSE]]

\* nextWeapon()
NextWeapon(c) == [c EXCEPT !.weaponIndex = (@ + 1) % Len(WEAPON_LIST)]

\* setWeapon(idx): another listed weapon is selected; the index of the cluster
\* weapon already held toggles the mine mode.
SetWeapon(c, idx) ==
    IF idx >= 0 /\ idx < Len(WEAPON_LIST) /\ idx # c.weaponIndex
    THEN [c EXCEPT !.weaponIndex = idx]
    ELSE IF idx = c.weaponIndex /\ WeaponAt(c.weaponIndex).id = "cluster"
         THEN [c EXCEPT !.clusterMineMode = ~@]
         ELSE c

\* hasAmmo()
HasAmmo(c) ==
    LET a == c.ammo[WeaponAt(c.weaponIndex).id]
    IN  a = <<>> \/ a[1] > 0

\* consumeAmmo()
ConsumeAmmo(c) ==
    LET id == WeaponAt(c.weaponIndex).id
    IN  IF c.ammo[id] # <<>> /\ c.ammo[id][1] > 0
        THEN [c EXCEPT !.ammo[id] = <<@[1] - 1>>]
        ELSE c

\* canFire(now), for a player that is dead or not.
CanFire(c, dead, now) ==
    /\ ~dead
    /\ now - c.lastFireTime >= WeaponAt(c.weaponIndex).cooldown
    /\ HasAmmo(c)

\* startCharge(now)
StartCharge(c, now) ==
    IF WeaponAt(c.weaponIndex).chargeable /\ ~c.charging
    THEN [c EXCEPT !.charging = TRUE, !.chargeStart = now]
    ELSE c

\* clamp(elapsed / max, 0, 1), in tenths.
Fraction(elapsed, max) ==
    IF elapsed <= 0 THEN 0 ELSE IF elapsed >= max THEN 10 ELSE (elapsed * 10) \div max

\* getCharge(now), in tenths.
GetCharge(c, now) ==
    IF ~c.charging \/ ~WeaponAt(c.weaponIndex).chargeable THEN 0
    ELSE Fraction(now - c.chargeStart, WeaponAt(c.weaponIndex).maxChargeTime)

\* releaseCharge(now): the player after it (the charge returned is GetCharge,
\* or 1 for a weapon that is not chargeable).
ReleaseCharge(c) ==
    IF ~WeaponAt(c.weaponIndex).chargeable THEN [c EXCEPT !.charging = FALSE]
    ELSE [c EXCEPT !.charging = FALSE, !.chargeStart = 0]

\* startSighting(now)
StartSighting(c, now) ==
    IF WeaponAt(c.weaponIndex).sighted /\ ~c.sighting
    THEN [c EXCEPT !.sighting = TRUE, !.sightStart = now]
    ELSE c

\* getSightFraction(now), in tenths.
GetSightFraction(c, now) ==
    IF ~c.sighting \/ ~WeaponAt(c.weaponIndex).sighted THEN 0
    ELSE Fraction(now - c.sightStart, WeaponAt(c.weaponIndex).maxSightTime)

\* releaseSighting()
ReleaseSighting(c) == [c EXCEPT !.sighting = FALSE, !.sightStart = 0]

\* ------------------------------------------------------------- projectiles
\* new Projectile(weapon, x, y, vx, vy, ownerIndex, isSub); pid is its identity.
Projectile(weapon, x, y, vx, vy, ownerIndex, isSub, pid) ==
    [weapon |-> weapon, x |-> x, y |-> y, vx |-> vx, vy |-> vy,
     ownerIndex |-> ownerIndex, alive |-> TRUE, age |-> 0, bounces |-> 0,
     distTravelled |-> 0, isSub |-> isSub, isMine |-> FALSE, landed |-> FALSE,
     mineMode |-> FALSE, pid |-> pid]

\* The WeaponSystem (with the Terrain it holds) as one value, threaded through
\* the operators below.  xlog lists the _explode calls of the current call and
\* visited the projectiles its update loop looked at, dcalls the destroyCircle
\* calls it made on the terrain, flights the moves of its
\* in-flight projectiles (history).
System ==
    [projectiles |-> projectiles, pendingExplosions |-> pendingExplosions,
     hitscanTracers |-> hitscanTracers, data |-> data, dirty |-> dirty,
     nextPid |-> nextPid, nextEid |-> nextEid, xlog |-> <<>>, visited |-> <<>>,
     flights |-> <<>>, dcalls |-> <<>>]

\* terrain.destroyCircle(...) called by the weapon system.
TerrainDestroy(ws, x, y, radius, power) ==
    LET res == DestroyCircle(ws.data, x, y, radius, power)
    IN  [ws EXCEPT !.data = res.data,
                   !.dirty = (IF res.destroyed > 0 THEN TRUE ELSE ws.dirty),
                   !.dcalls = Append(@, [cx |-> x, cy |-> y, radius |-> radius,
                                         power |-> power, from |-> ws.data,
                                         to |-> res.data])]

\* A projectile put at the front of the list (unshift).
PushProjectileFront(list, p) == <<p>> \o list

\* this.projectiles.push(p)
PushProjectile(list, p) == Append(list, p)

\* this.pendingExplosions.push({...})
PushExplosion(ws, x, y, weapon, ownerIndex, blastRadius, damage, knockback, idx, src) ==
    [ws EXCEPT !.pendingExplosions =
                   Append(@, [x |-> x, y |-> y, weapon |-> weapon,
                              ownerIndex |-> ownerIndex, blastRadius |-> blastRadius,
                              damage |-> damage, knockback |-> knockback,
                              directHitPlayerIdx |-> idx, src |-> src,
                              eid |-> ws.nextEid]),
               !.nextEid = @ + 1]

\* Math.random(): the draw number k of a call takes one of two outcomes, chosen
\* by the call's seed rnd.
Draw(rnd, k) == (rnd + k) % 2

\* Velocity of the sub-munition i of a cluster split: upwards, scattered
\* (ang = -PI/2 +- clusterSpread, spd in [3, 6), minus randRange(1, 3)).
Scatter(rnd, i) == IF Draw(rnd, i) = 0 THEN <<-10, -10>> ELSE <<10, -20>>

\* The pellet direction of a spread weapon: aim + (Math.random() - 0.5) * spread * 2,
\* as (cos, sin) in tenths: the aim itself or the aim turned by about 0.1 rad.
SpreadDir(aim, rnd, i) ==
    IF Draw(rnd, i) = 0 THEN aim ELSE <<aim[1] - aim[2] \div 10, aim[2] + aim[1] \div 10>>

\* a * b for two values in tenths, cut towards zero.
Mul(a, b) == IF a * b >= 0 THEN (a * b) \div 10 ELSE -((-(a * b)) \div 10)

\* The world's extent in tenths.
W10 == WORLD_WIDTH * 10
H10 == WORLD_HEIGHT * 10

\* Centre of a player (Player.cx, Player.cy).
Cx(plr) == plr.x + plr.width \div 2
Cy(plr) == plr.y + plr.height \div 2

\* The point (x, y) lies in the player's box (bounds included).
InBox(x, y, plr) ==
    /\ x >= plr.x /\ x <= plr.x + plr.width
    /\ y >= plr.y /\ y <= plr.y + plr.height

\* The least index of a non-empty set of player indices (the loops run upwards
\* and stop at the first match).
FirstIdx(S) == CHOOSE i \in S : \A j \in S : i <= j

\* A sub-munition created without its isSub flag.
SubMunitionNotSub(p, v, pid) ==
    [Projectile(p.weapon, p.x, p.y, v[1], v[2], p.ownerIndex, FALSE, pid)
        EXCEPT !.isMine = p.mineMode]

\* ----------------------------------------------------------------- _explode
\* The sub-munition _explode creates for the parent p with scatter velocity v.
SubMunition(p, v, pid) ==
    [Projectile(p.weapon, p.x, p.y, v[1], v[2], p.ownerIndex, TRUE, pid)
        EXCEPT !.isMine = p.mineMode]

\* for (let i = 0; i < w.clusterCount; i++) { ... this.projectiles.push(subProj) }
RECURSIVE SpawnSubs(_, _, _, _, _)
SpawnSubs(ws, p, i, n, rnd) ==
    IF ~(i < n) THEN ws
    ELSE SpawnSubs([ws EXCEPT !.projectiles =
                                  PushProjectile(@, SubMunition(p, Scatter(rnd, i), ws.nextPid)),
                              !.nextPid = @ + 1],
                   p, i + 1, n, rnd)

\* Does _explode take its cluster branch for p?  (w.clusterCount && !p.isSub)
Splits(p) == WEAPONS[p.weapon].clusterCount # 0 /\ ~p.isSub

\* a || b for numbers.
OrElse(a, b) == IF a # 0 THEN a ELSE b

\* A destruct radius that ignores the terrain-destruct multiplier.
DestructRadiusUnscaled(radius, terrainDestruct) == radius

\* const destructRadius = radius * terrainDestruct;
DestructRadius(radius, terrainDestruct) == Mul(radius, terrainDestruct)

\* WeaponSystem._explode(p, directHitPlayerIdx) for the projectile at index i.
Explode(ws, i, directHitPlayerIdx, rnd) ==
    LET p0  == ws.projectiles[i]
        p   == [p0 EXCEPT !.alive = FALSE]
        w   == WEAPONS[p.weapon]
        ws1 == [ws EXCEPT !.projectiles[i] = p]
        radius == IF p.isSub THEN OrElse(w.subBlastRadius, w.blastRadius)
                  ELSE w.blastRadius
        damage == IF p.isSub THEN OrElse(w.subDamage, w.damage) ELSE w.damage
        terrainDestruct == IF p.isSub
                           THEN OrElse(w.subTerrainDestruct, w.terrainDestruct)
                           ELSE w.terrainDestruct
        destructRadius == DestructRadius(radius, terrainDestruct)
        knockback == IF p.isSub THEN Mul(w.knockback, 6) ELSE w.knockback
        ws2 == IF Splits(p)
               THEN SpawnSubs(ws1, p, 0, w.clusterCount, rnd)
               ELSE PushExplosion(TerrainDestroy(ws1, p.x, p.y, destructRadius, 30),
                                  p.x, p.y, p.weapon, p.ownerIndex, radius, damage,
                                  knockback, directHitPlayerIdx, p.pid)
    IN  [ws2 EXCEPT !.xlog =
            Append(@, [pid |-> p.pid, wasAlive |-> p0.alive, split |-> Splits(p),
                       isSub |-> p.isSub, owner |-> p.ownerIndex, weapon |-> p.weapon,
                       x |-> p.x, y |-> p.y, idx |-> directHitPlayerIdx,
                       spawned |-> ws.nextPid .. (ws2.nextPid - 1),
                       events |-> Len(ws2.pendingExplosions) - Len(ws.pendingExplosions),
                       calls |-> SubSeq(ws2.dcalls, Len(ws.dcalls) + 1, Len(ws2.dcalls)),
                       terrainChanged |-> ws2.data # ws.data])]

\* -------------------------------------------------------------------- fire
\* A fire that creates one projectile whatever the weapon's pellet count.
FirePelletsOnce(ws, w, i, x, y, aim, ownerIndex, speed, mineMode, rnd) ==
    IF ~(i < w.pellets) THEN ws
    ELSE [ws EXCEPT !.projectiles =
                        Append(@, [Projectile(w.id, x, y, Mul(aim[1], speed),
                                              Mul(aim[2], speed), ownerIndex, FALSE,
                                              ws.nextPid)
                                      EXCEPT !.mineMode = mineMode]),
                    !.nextPid = @ + 1]

\* The ballistic branch of fire: the pellets from number i on.
RECURSIVE FirePellets(_, _, _, _, _, _, _, _, _, _)
FirePellets(ws, w, i, x, y, aim, ownerIndex, speed, mineMode, rnd) ==
    IF ~(i < w.pellets) THEN ws
    ELSE LET dir  == IF w.pellets > 1 THEN SpreadDir(aim, rnd, i) ELSE aim
             proj == [Projectile(w.id, x, y, Mul(dir[1], speed), Mul(dir[2], speed),
                                 ownerIndex, FALSE, ws.nextPid)
                         EXCEPT !.mineMode = mineMode]
         IN  FirePellets([ws EXCEPT !.projectiles = PushProjectile(@, proj),
                                    !.nextPid = @ + 1],
                         w, i + 1, x, y, aim, ownerIndex, speed, mineMode, rnd)

\* p.alive of a player: Player (player.js:22-76) defines `dead` and no `alive`,
\* so the property reads undefined, which is falsy.
PlayerAliveProperty(plr) == FALSE

\* Math.abs(angleDiff) <= arc for the angle between the aim (cos, sin in tenths)
\* and the vector (vx, vy), arc = weapon.meleeArc || 0.8 with cos^2(0.8) = 0.4854;
\* angle(x, y, x, y) = atan2(0, 0) = 0, the direction (1, 0).
WithinArc(aim, vx, vy) ==
    LET ux  == IF vx = 0 /\ vy = 0 THEN 1 ELSE vx
        dot == aim[1] * ux + aim[2] * vy
    IN  dot >= 0 /\ dot * dot * 10000 >= 4854 * 100 * (ux * ux + vy * vy)

\* The players the melee loop queues an event for.
MeleeTargets(w, x, y, aim, ownerIndex, plrs) ==
    {i \in DOMAIN plrs :
        /\ i # ownerIndex
        /\ PlayerAliveProperty(plrs[i])
        /\ ~((Cx(plrs[i]) - x) * (Cx(plrs[i]) - x) + (Cy(plrs[i]) - y) * (Cy(plrs[i]) - y)
                > OrElse(w.meleeRange, 40) * OrElse(w.meleeRange, 40))
        /\ WithinArc(aim, Cx(plrs[i]) - x, Cy(plrs[i]) - y)}

\* The melee loop over the players from index i on.
RECURSIVE MeleeLoop(_, _, _, _, _, _, _, _)
MeleeLoop(ws, w, i, x, y, aim, ownerIndex, plrs) ==
    IF i \notin DOMAIN plrs THEN ws
    ELSE MeleeLoop(IF i \in MeleeTargets(w, x, y, aim, ownerIndex, plrs)
                   THEN PushExplosion(ws, Cx(plrs[i]), Cy(plrs[i]), w.id, ownerIndex,
                                      OrElse(w.meleeRange, 40), w.damage, w.knockback,
                                      i, 0)
                   ELSE ws,
                   w, i + 1, x, y, aim, ownerIndex, plrs)

\* WeaponSystem._fireMelee
FireMelee(ws, w, x, y, aim, ownerIndex, plrs) ==
    LET range == OrElse(w.meleeRange, 40)
        hitX  == x + (aim[1] * range * 42) \div 1000
        hitY  == y + (aim[2] * range * 42) \div 1000
    IN  MeleeLoop(TerrainDestroy(ws, hitX, hitY, Mul(w.blastRadius, w.terrainDestruct), 20),
                  w, 0, x, y, aim, ownerIndex, plrs)

\* The players at a ray point, the owner included.
RayStrikesIncludingOwner(rx, ry, ownerIndex, plrs) ==
    {pi \in DOMAIN plrs : ~plrs[pi].dead /\ InBox(rx, ry, plrs[pi])}

\* The players a hitscan ray point (rx, ry) strikes.
RayStrikes(rx, ry, ownerIndex, plrs) ==
    {pi \in DOMAIN plrs : pi # ownerIndex /\ ~plrs[pi].dead /\ InBox(rx, ry, plrs[pi])}

\* The ray march of _fireHitscan from distance d on: the impact point and the
\* player hit.  step = 0.5 and maxDist = 4 pixels here (2 and 1500 in the game),
\* the off-screen margins 1 and 2 pixels (20 and 200).
RECURSIVE HitscanRay(_, _, _, _, _, _, _, _)
HitscanRay(d, x, y, aim, ownerIndex, terrain, plrs, hit) ==
    IF ~(d < 40) THEN hit
    ELSE LET rx == x + (aim[1] * d) \div 10
             ry == y + (aim[2] * d) \div 10
         IN  IF rx < -10 \/ rx > W10 + 10 \/ ry < -20 \/ ry > H10 + 10
             THEN [x |-> rx, y |-> ry, idx |-> -1]
             ELSE IF IsSolid(terrain, Round(rx), Round(ry))
             THEN [x |-> rx, y |-> ry, idx |-> -1]
             ELSE IF RayStrikes(rx, ry, ownerIndex, plrs) # {}
             THEN [x |-> rx, y |-> ry, idx |-> FirstIdx(RayStrikes(rx, ry, ownerIndex, plrs))]
             ELSE HitscanRay(d + 5, x, y, aim, ownerIndex, terrain, plrs,
                             [x |-> rx, y |-> ry, idx |-> -1])

\* WeaponSystem._fireHitscan (tracer maxAge 48 ms here, 200 in the game).
FireHitscan(ws, w, x, y, aim, ownerIndex, plrs) ==
    LET hit == HitscanRay(5, x, y, aim, ownerIndex, ws.data, plrs,
                          [x |-> x, y |-> y, idx |-> -1])
        ws1 == [ws EXCEPT !.hitscanTracers =
                   Append(@, [x1 |-> x, y1 |-> y, x2 |-> hit.x, y2 |-> hit.y,
                              age |-> 0, maxAge |-> 48])]
        ws2 == TerrainDestroy(ws1, hit.x, hit.y, Mul(w.blastRadius, w.terrainDestruct), 30)
    IN  PushExplosion(ws2, hit.x, hit.y, w.id, ownerIndex, w.blastRadius, w.damage,
                      w.knockback, hit.idx, 0)

\* WeaponSystem.fire(weapon, x, y, aimAngle, ownerIndex, chargeFraction, mineMode);
\* aim is (cos aimAngle, sin aimAngle) in tenths.
Fire(ws, weapon, x, y, aim, ownerIndex, chargeFraction, mineMode, plrs, rnd) ==
    LET w == WEAPONS[weapon]
    IN  IF w.melee THEN FireMelee(ws, w, x, y, aim, ownerIndex, plrs)
        ELSE IF w.hitscan THEN FireHitscan(ws, w, x, y, aim, ownerIndex, plrs)
        ELSE FirePellets(ws, w, 0, x, y, aim, ownerIndex,
                         IF w.chargeable
                         THEN Lerp(w.minSpeed, w.maxSpeed, chargeFraction)
                         ELSE w.speed,
                         mineMode, rnd)

\* ------------------------------------------------------------------ update
\* steps = Math.max(1, Math.ceil(dist(oldX, oldY, x, y))), lengths in tenths.
Steps(oldX, oldY, x, y) ==
    LET d2 == (x - oldX) * (x - oldX) + (y - oldY) * (y - oldY)
    IN  Max(1, CHOOSE n \in 0 .. 60 :
                  /\ 100 * n * n >= d2
                  /\ (n = 0 \/ 100 * (n - 1) * (n - 1) < d2))

\* Math.round(a + (b - a) * s / steps) for a, b in tenths: the cell of sample s.
SampleCell(a, b, s, steps) == (2 * (a * steps + (b - a) * s) + 10 * steps) \div (20 * steps)

\* a + (b - a) * s / steps, cut to tenths.
SamplePoint(a, b, s, steps) == a + ((b - a) * s) \div steps

\* A terrain test that looks at the end of the path only.
CheckTerrainCollisionEndOnly(terrain, x, y, oldX, oldY) ==
    [collided |-> IsSolid(terrain, Round(x), Round(y)), x |-> x, y |-> y]

\* WeaponSystem._checkTerrainCollision(p, oldX, oldY): whether a sample of the
\* path is solid, and the first such sample.
CheckTerrainCollision(terrain, x, y, oldX, oldY) ==
    LET steps == Steps(oldX, oldY, x, y)
        solid == {s \in 1 .. steps :
                     IsSolid(terrain, SampleCell(oldX, x, s, steps),
                                      SampleCell(oldY, y, s, steps))}
        first == CHOOSE s \in solid : \A t \in solid : s <= t
    IN  IF solid = {} THEN [collided |-> FALSE, x |-> x, y |-> y]
        ELSE [collided |-> TRUE,
              x |-> SamplePoint(oldX, x, first, steps),
              y |-> SamplePoint(oldY, y, first, steps)]

\* A bounce that does not count itself.
BounceUncounted(terrain, p, oldX, oldY) ==
    [p EXCEPT !.vx = -Restitution(p.vx), !.vy = -Restitution(p.vy),
              !.x = oldX, !.y = oldY]

\* A bounce that leaves the projectile at the point of contact.
BounceInPlace(terrain, p, oldX, oldY) ==
    [p EXCEPT !.bounces = @ + 1, !.vx = -Restitution(p.vx), !.vy = -Restitution(p.vy)]

\* WeaponSystem._bounce(p, oldX, oldY)
Bounce(terrain, p, oldX, oldY) ==
    LET checkLeft  == IsSolid(terrain, Round(p.x - 20), Round(p.y))
        checkRight == IsSolid(terrain, Round(p.x + 20), Round(p.y))
        checkUp    == IsSolid(terrain, Round(p.x), Round(p.y - 20))
        checkDown  == IsSolid(terrain, Round(p.x), Round(p.y + 20))
    IN  [p EXCEPT !.bounces = @ + 1,
                  !.vy = IF checkDown \/ checkUp THEN -Restitution(p.vy) ELSE p.vy,
                  !.vx = IF checkLeft \/ checkRight THEN -Restitution(p.vx) ELSE p.vx,
                  !.x = oldX,
                  !.y = oldY]

\* A splice that removes nothing.
SpliceNothing(list, i) == list

\* this.projectiles.splice(i, 1)
Splice(list, i) == SubSeq(list, 1, i - 1) \o SubSeq(list, i + 1, Len(list))

\* A proximity check that spares the mine's owner.
MineTriggersNotOwner(p, plrs) ==
    {pi \in DOMAIN plrs :
        /\ pi # p.ownerIndex
        /\ ~plrs[pi].dead
        /\ (p.x - Cx(plrs[pi])) * (p.x - Cx(plrs[pi])) +
           (p.y - Cy(plrs[pi])) * (p.y - Cy(plrs[pi]))
             < OrElse(WEAPONS[p.weapon].mineProximity, 30)
               * OrElse(WEAPONS[p.weapon].mineProximity, 30)}

\* The players within proximity of a landed mine (all players, the owner too).
MineTriggers(p, plrs) ==
    {pi \in DOMAIN plrs :
        /\ ~plrs[pi].dead
        /\ (p.x - Cx(plrs[pi])) * (p.x - Cx(plrs[pi])) +
           (p.y - Cy(plrs[pi])) * (p.y - Cy(plrs[pi]))
             < OrElse(WEAPONS[p.weapon].mineProximity, 30)
               * OrElse(WEAPONS[p.weapon].mineProximity, 30)}

\* A player collision that knows no grace period for the owner.
BodyHitsNoGrace(p, plrs) ==
    {pi \in DOMAIN plrs : ~plrs[pi].dead /\ InBox(p.x, p.y, plrs[pi])}

\* The players an in-flight projectile at its new position collides with; the
\* owner is skipped during the grace period (48 ms here, 200 in the game).
BodyHits(p, plrs) ==
    {pi \in DOMAIN plrs :
        /\ ~(pi = p.ownerIndex /\ p.age < 48)
        /\ ~plrs[pi].dead
        /\ InBox(p.x, p.y, plrs[pi])}

\* A landed mine's turn that applies gravity to it like to a projectile in flight.
MineStepWithGravity(ws, i, dt, plrs, rnd) ==
    LET p   == [ws.projectiles[i] EXCEPT
                   !.age = @ + dt,
                   !.vy = @ + WEAPONS[ws.projectiles[i].weapon].gravity * (dt \div 16)]
        ws1 == [ws EXCEPT !.projectiles[i] = p]
    IN  IF p.age >= OrElse(WEAPONS[p.weapon].mineLifetime, 10000)
        THEN Explode(ws1, i, -1, rnd)
        ELSE IF MineTriggers(p, plrs) # {}
        THEN Explode(ws1, i, FirstIdx(MineTriggers(p, plrs)), rnd)
        ELSE ws1

\* A landed mine's turn in the update loop (mine lifetime 64 ms here, 10000 in
\* the game).
MineStep(ws, i, dt, plrs, rnd) ==
    LET p   == [ws.projectiles[i] EXCEPT !.age = @ + dt]
        ws1 == [ws EXCEPT !.projectiles[i] = p]
    IN  IF p.age >= OrElse(WEAPONS[p.weapon].mineLifetime, 10000)
        THEN Explode(ws1, i, -1, rnd)
        ELSE IF MineTriggers(p, plrs) # {}
        THEN Explode(ws1, i, FirstIdx(MineTriggers(p, plrs)), rnd)
        ELSE ws1

\* A cull that wrap mode switches off altogether.
CulledOutsideWrapOnly(wrap, x, y) ==
    IF wrap THEN FALSE
    ELSE x < -10 \/ x > W10 + 10 \/ y < -20 \/ y > H10 + 10

\* Is the projectile at (x, y) culled?  Margins of 1, 2 and 4 pixels here
\* (50, 200 and 400 in the game); x is the position after wrapping.
Culled(wrap, x, y) ==
    IF wrap
    THEN y < -40 \/ y > H10 + 10
    ELSE x < -10 \/ x > W10 + 10 \/ y < -20 \/ y > H10 + 10

\* Horizontal wrap of x in wrap mode.
Wrap(wrap, x) ==
    IF ~wrap THEN x
    ELSE IF x < 0 THEN x + W10
    ELSE IF x > W10 THEN x - W10
    ELSE x

\* An order of the checks that looks at the fuse before the culls.
FlightCheckFuseFirst(culled, ranged, fuseDue, collided) ==
    IF fuseDue THEN "fuse"
    ELSE IF culled THEN "cull"
    ELSE IF ranged THEN "range"
    ELSE IF collided THEN "terrain"
    ELSE "actor"

\* An order of the checks that looks at the terrain before the fuse.
FlightCheckTerrainFirst(culled, ranged, fuseDue, collided) ==
    IF culled THEN "cull"
    ELSE IF ranged THEN "range"
    ELSE IF collided THEN "terrain"
    ELSE IF fuseDue THEN "fuse"
    ELSE "actor"

\* The order of the checks on a moved projectile: each `continue`s, so the
\* first that applies ends the projectile's turn.
FlightCheck(culled, ranged, fuseDue, collided) ==
    IF culled THEN "cull"
    ELSE IF ranged THEN "range"
    ELSE IF fuseDue THEN "fuse"
    ELSE IF collided THEN "terrain"
    ELSE "actor"

\* A terrain contact on which nothing ever lands.
LandsNever(p) == FALSE

\* if (p.isMine && p.isSub): the projectile lands on terrain contact.
Lands(p) == p.isMine /\ p.isSub

\* p.landed = true; p.vx = 0; p.vy = 0; p.y = oldY;
Land(p, oldY) == [p EXCEPT !.landed = TRUE, !.vx = 0, !.vy = 0, !.y = oldY]

\* An in-flight projectile's turn in the update loop.
FlyStep(ws0, i, dt, plrs, wrap, rnd) ==
    LET p0       == ws0.projectiles[i]
        w        == WEAPONS[p0.weapon]
        dtFactor == dt \div 16
        vy       == p0.vy + w.gravity * dtFactor
        oldX     == p0.x
        oldY     == p0.y
        nx       == oldX + p0.vx * dtFactor
        ny       == oldY + vy * dtFactor
        p1       == [p0 EXCEPT !.vy = vy, !.x = Wrap(wrap, nx), !.y = ny,
                               !.age = @ + dt,
                               !.distTravelled = @ + Dist(oldX, oldY, nx, ny)]
        hit      == CheckTerrainCollision(ws0.data, p1.x, p1.y, oldX, oldY)
        culled   == Culled(wrap, p1.x, p1.y)
        ranged   == w.maxRange # 0 /\ p1.distTravelled > w.maxRange
        fuseDue  == w.fuseTime > 0 /\ p1.age >= w.fuseTime
        check    == FlightCheck(culled, ranged, fuseDue, hit.collided)
        ws       == [ws0 EXCEPT !.flights =
                        Append(@, [pid |-> p0.pid, oldX |-> oldX, oldY |-> oldY,
                                   nx |-> nx, ny |-> ny, x |-> p1.x, age |-> p1.age,
                                   owner |-> p0.ownerIndex, collided |-> hit.collided,
                                   hitX |-> hit.x, hitY |-> hit.y,
                                   culled |-> culled, ranged |-> ranged,
                                   fuseDue |-> fuseDue,
                                   ended |-> culled \/ ranged \/ fuseDue])]
        ws1      == [ws EXCEPT !.projectiles[i] = p1]
        p2       == [p1 EXCEPT !.x = hit.x, !.y = hit.y]
        ws2      == [ws EXCEPT !.projectiles[i] = p2]
    IN  IF check = "cull" \/ check = "range"
        THEN [ws EXCEPT !.projectiles[i] = [p1 EXCEPT !.alive = FALSE]]
        ELSE IF check = "fuse"
        THEN Explode(ws1, i, -1, rnd)
        ELSE IF check = "terrain"
        THEN IF Lands(p2)
             THEN [ws EXCEPT !.projectiles[i] = Land(p2, oldY)]
             ELSE IF w.bounces > 0 /\ p2.bounces < w.bounces
             THEN [ws EXCEPT !.projectiles[i] = Bounce(ws.data, p2, oldX, oldY)]
             ELSE Explode(ws2, i, -1, rnd)
        ELSE IF BodyHits(p1, plrs) # {}
        THEN Explode(ws1, i, FirstIdx(BodyHits(p1, plrs)), rnd)
        ELSE ws1

\* A loop that never skips a dead projectile.
SkipsDeadNever(p) == FALSE

\* if (!p.alive) { splice; continue; }
SkipsDead(p) == ~p.alive

\* One iteration of update's loop, for index i.
LoopStep(ws, i, dt, plrs, wrap, rnd) ==
    LET p   == ws.projectiles[i]
        wsv == [ws EXCEPT !.visited = Append(@, [pid |-> p.pid, alive |-> p.alive])]
    IN  IF SkipsDead(p)
        THEN [wsv EXCEPT !.projectiles = Splice(@, i)]
        ELSE IF p.isMine /\ p.landed
        THEN MineStep(wsv, i, dt, plrs, rnd)
        ELSE FlyStep(wsv, i, dt, plrs, wrap, rnd)

\* for (let i = this.projectiles.length - 1; i >= 0; i--)  (indices from 1 here)
RECURSIVE UpdateLoop(_, _, _, _, _, _)
UpdateLoop(ws, i, dt, plrs, wrap, rnd) ==
    IF ~(i >= 1) THEN ws
    ELSE UpdateLoop(LoopStep(ws, i, dt, plrs, wrap, rnd), i - 1, dt, plrs, wrap, rnd)

\* Age and cull the hitscan tracers.
AgeTracers(tracers, dt) ==
    SelectSeq([k \in DOMAIN tracers |-> [tracers[k] EXCEPT !.age = @ + dt]],
              LAMBDA t : ~(t.age >= t.maxAge))

\* An update that empties the queue when it starts.
UpdateStartQueueCleared(q) == <<>>

\* The pending-explosion queue as update starts with it.
UpdateStartQueue(q) == q

\* WeaponSystem.update(dt, players)
Update(ws, dt, plrs, wrap, rnd) ==
    UpdateLoop([ws EXCEPT !.hitscanTracers = AgeTracers(@, dt),
                          !.pendingExplosions = UpdateStartQueue(@)],
               Len(ws.projectiles), dt, plrs, wrap, rnd)

\* A clear that empties the projectiles and the tracers and forgets the queue.
ClearKeepsQueue(ws) ==
    [ws EXCEPT !.projectiles = <<>>, !.hitscanTracers = <<>>]

\* WeaponSystem.clear()
Clear(ws) ==
    [ws EXCEPT !.projectiles = <<>>, !.pendingExplosions = <<>>,
               !.hitscanTracers = <<>>]

\* ------------------------------------------------------- maps (map generator)
\* The external map generator paints the grid before a round.  Three painted
\* grids: open air over mixed ground (every material occurs), an empty grid,
\* and a rock wall on a dirt floor with a lava pool.
Map(k) ==
    [i \in Cells |->
        LET x == i % WORLD_WIDTH
            y == i \div WORLD_WIDTH
        IN  CASE k = 1 -> IF y < 2 THEN AIR ELSE ((x + 3 * y) % 7) + 1
              [] k = 2 -> AIR
              [] OTHER -> IF y = WORLD_HEIGHT - 1 THEN (IF x < 2 THEN LAVA ELSE DIRT)
                          ELSE IF x = WORLD_WIDTH - 2 /\ y >= 1 THEN ROCK
                          ELSE AIR]

Maps == {Map(1), Map(2), Map(3)}

\* Arguments of the modelled destroyCircle calls, in tenths.  Centres on and off
\* the cell grid (x.5 rounds up), inside the world and at its border; radii 0,
\* 0.3 (the sniper's), 1.0, 1.5 and 2.5; powers below, between and above the
\* resistances.
Centres == {<<-5, 35>>, <<25, 25>>, <<40, 35>>, <<30, 45>>, <<52, 30>>}
Radii == {0, 3, 10, 15, 25}
Powers == {3, 20, 30}

NoCall ==
    [op |-> "none", cx |-> 0, cy |-> 0, radius |-> 0, power |-> 0,
     ret |-> 0, repeat |-> FALSE, prevRet |-> 0,
     x |-> 0, y |-> 0, mat |-> AIR, solid |-> FALSE, lava |-> FALSE]

NoOp ==
    [name |-> "none", weapon |-> "none", x |-> 0, y |-> 0, aim |-> <<0, 0>>,
     owner |-> 0, queueBefore |-> <<>>, projBefore |-> <<>>, xlog |-> <<>>,
     visited |-> <<>>, drained |-> <<>>, healthBefore |-> <<>>, trace |-> <<>>,
     flights |-> <<>>, tracersBefore |-> <<>>, charge |-> 0, rnd |-> 0,
     winsBefore |-> <<>>, dcalls |-> <<>>]

\* new Player(index, spawnX, spawnY, ...)
Player(index, spawnX, spawnY, dead) ==
    [index |-> index, x |-> spawnX, y |-> spawnY, vx |-> 0, vy |-> 0,
     width |-> PLAYER_WIDTH, height |-> PLAYER_HEIGHT, onGround |-> FALSE,
     health |-> MAX_HEALTH, dead |-> dead, wins |-> 0]

\* The two actors, at the left and towards the right of the world; the second
\* one alive or dead.
Players(secondDead) ==
    (0 :> Player(0, 0, 0, FALSE)) @@ (1 :> Player(1, 40, 0, secondDead))

\* The worlds a behaviour of the weapon system starts in: the map painted, the
\* wrap mode and whether the second actor is dead.
Worlds ==
    { <<1, FALSE, FALSE>>, <<1, FALSE, TRUE>>, <<2, TRUE, FALSE>>,
      <<3, FALSE, FALSE>>, <<3, TRUE, FALSE>> }

\* The worlds a behaviour starts in: a painted grid, the wrap mode and the actors.
InitWorld ==
    /\ data \in Maps
    /\ painted = data
    /\ before = data
    /\ dirty = TRUE
    /\ calls = 0
    /\ last = NoCall
    /\ rendered = [i \in Cells |-> AIR]

InitWeapons ==
    /\ projectiles = <<>>
    /\ pendingExplosions = <<>>
    /\ hitscanTracers = <<>>
    /\ nextPid = 1
    /\ nextEid = 1
    /\ fires = 0
    /\ ticks = 0
    /\ detonated = {}
    /\ op = NoOp
    /\ state = "PLAYING"
    /\ resolved = <<>>
    /\ ctl = Control(0)

InitTerrain ==
    /\ InitWorld
    /\ InitWeapons
    /\ wrapScreen = FALSE
    /\ frame = 16
    /\ players = Players(FALSE)

\* A caller invokes terrain.destroyCircle(cx, cy, radius, power).
DestroyCircleCall ==
    /\ calls < MaxCalls
    /\ \E c \in Centres, radius \in Radii, power \in Powers :
       \E res \in {DestroyCircle(data, c[1], c[2], radius, power)} :
              /\ data' = res.data
              /\ dirty' = DirtyAfterDestroy(dirty, res.destroyed)
              /\ before' = data
              /\ last' = [NoCall EXCEPT
                            !.op = "destroyCircle", !.cx = c[1], !.cy = c[2],
                            !.radius = radius, !.power = power,
                            !.ret = res.destroyed,
                            !.repeat = /\ last.op = "destroyCircle"
                                       /\ last.cx = c[1] /\ last.cy = c[2]
                                       /\ last.radius = radius /\ last.power = power,
                            !.prevRet = last.ret]
              /\ calls' = calls + 1
              /\ UNCHANGED <<painted, rendered>>
    /\ UNCHANGED <<wvars, gvars>>

NextTerrain == DestroyCircleCall

SpecTerrain == InitTerrain /\ [][NextTerrain]_vars

\* Coordinates of the modelled get, isSolid, isLava and set calls, in tenths:
\* whole and fractional, inside the world, on its edges and outside.
GridXs == {-15, -5, 0, 25, WORLD_WIDTH * 10 - 1, WORLD_WIDTH * 10}
GridYs == {-5, 20, WORLD_HEIGHT * 10 - 1, WORLD_HEIGHT * 10}

\* A caller invokes terrain.get(x, y), terrain.isSolid(x, y) and terrain.isLava(x, y).
QueryCall ==
    /\ calls < MaxCalls
    /\ \E x \in GridXs, y \in GridYs :
          last' = [NoCall EXCEPT !.op = "get", !.x = x, !.y = y,
                                 !.mat = GetAt(data, x, y),
                                 !.solid = IsSolidAt(data, x, y),
                                 !.lava = IsLavaAt(data, x, y)]
    /\ before' = data
    /\ calls' = calls + 1
    /\ UNCHANGED <<data, dirty, painted, rendered, wvars, gvars>>

\* A caller invokes terrain.set(x, y, mat).
SetCall ==
    /\ calls < MaxCalls
    /\ \E x \in GridXs, y \in GridYs, mat \in {AIR, ROCK, LAVA} :
       \E res \in {SetAt(data, dirty, x, y, mat)} :
          /\ data' = res.data
          /\ dirty' = res.dirty
          /\ last' = [NoCall EXCEPT !.op = "set", !.x = x, !.y = y, !.mat = mat]
    /\ before' = data
    /\ calls' = calls + 1
    /\ UNCHANGED <<painted, rendered, wvars, gvars>>

\* A caller invokes terrain.clear().
TerrainClearCall ==
    /\ calls < MaxCalls
    /\ data' = TerrainClear(data, dirty).data
    /\ dirty' = TerrainClear(data, dirty).dirty
    /\ last' = [NoCall EXCEPT !.op = "clear"]
    /\ before' = data
    /\ calls' = calls + 1
    /\ UNCHANGED <<painted, rendered, wvars, gvars>>

\* The renderer invokes terrain.rebuild().
RebuildCall ==
    /\ calls < MaxCalls
    /\ dirty' = Rebuild(data, dirty, rendered).dirty
    /\ rendered' = Rebuild(data, dirty, rendered).rendered
    /\ last' = [NoCall EXCEPT !.op = "rebuild"]
    /\ before' = data
    /\ calls' = calls + 1
    /\ UNCHANGED <<data, painted, wvars, gvars>>

NextGrid == DestroyCircleCall \/ QueryCall \/ SetCall \/ TerrainClearCall \/ RebuildCall

SpecGrid == InitTerrain /\ [][NextGrid]_vars

\* ---------------------------------------------------------- the weapon system
\* Player.getMuzzle(): the centre moved by the gun length (gunLen, in tenths)
\* along the aim.
Muzzle(plr, aim, gunLen) ==
    <<Cx(plr) + (aim[1] * gunLen) \div 10, Cy(plr) + (aim[2] * gunLen) \div 10>>

\* The fire calls the callers make: owner, weapon, aim (cos, sin in tenths),
\* charge fraction (tenths; 10 is the default of 1) and mine mode.  The first
\* actor fires to the right, straight down, down-right and to the left, the
\* second to the left, up-left and straight up.  The origin is the owner's muzzle, 1 pixel
\* from its centre (18 in the game); one shot starts at the owner's centre.
Shot(owner, weapon, aim, charge, mineMode) ==
    [owner |-> owner, weapon |-> weapon, aim |-> aim, charge |-> charge,
     mineMode |-> mineMode, gunLen |-> 10]

Shots ==
    { Shot(0, "rocket", <<10, 0>>, 10, FALSE),
      Shot(0, "rocket", <<6, 8>>, 0, FALSE),
      Shot(0, "rocket", <<-10, 0>>, 0, FALSE),
      Shot(0, "shotgun", <<10, 0>>, 5, FALSE),
      Shot(0, "grenade", <<10, 0>>, 0, FALSE),
      Shot(0, "grenade", <<0, 10>>, 10, FALSE),
      Shot(0, "grenade", <<6, 8>>, 5, FALSE),
      [Shot(0, "sniper", <<10, 0>>, 10, FALSE) EXCEPT !.gunLen = 0],
      Shot(0, "sniper", <<6, 8>>, 10, FALSE),
      Shot(0, "cluster", <<0, 10>>, 10, FALSE),
      Shot(0, "cluster", <<0, 10>>, 10, TRUE),
      Shot(0, "cluster", <<10, 0>>, 0, FALSE),
      Shot(0, "cluster", <<10, 0>>, 0, TRUE),
      Shot(0, "digger", <<10, 0>>, 10, FALSE),
      Shot(1, "rocket", <<-10, 0>>, 10, FALSE),
      Shot(1, "grenade", <<-10, 0>>, 10, FALSE),
      Shot(1, "grenade", <<-6, -8>>, 0, FALSE),
      Shot(1, "sniper", <<-10, 0>>, 10, FALSE),
      Shot(1, "cluster", <<0, -10>>, 10, TRUE),
      Shot(1, "digger", <<-10, 0>>, 10, FALSE) }

Seeds(weapon) == IF WEAPONS[weapon].pellets > 1 THEN {0, 1} ELSE {0}

\* The state after a WeaponSystem call that left the system as ws.
Becomes(ws) ==
    /\ projectiles' = ws.projectiles
    /\ pendingExplosions' = ws.pendingExplosions
    /\ hitscanTracers' = ws.hitscanTracers
    /\ data' = ws.data
    /\ dirty' = ws.dirty
    /\ nextPid' = ws.nextPid
    /\ nextEid' = ws.nextEid
    /\ before' = data
    /\ detonated' = detonated \cup {op.xlog[k].pid : k \in DOMAIN op.xlog}
    /\ UNCHANGED <<painted, calls, last, rendered, wrapScreen, players, frame, gvars>>

Init ==
    /\ InitWorld
    /\ InitWeapons
    /\ frame \in {16, 32}
    /\ \E w \in Worlds : /\ data = Map(w[1])
                         /\ wrapScreen = w[2]
                         /\ players = Players(w[3])

\* A caller invokes weapons.fire(weapon, x, y, aimAngle, ownerIndex, charge, mineMode)
\* with one of the given shots.
FireWith(shots) ==
    /\ fires < MaxFires
    /\ \E shot \in shots :
       \E rnd \in Seeds(shot.weapon) :
       \E m \in {Muzzle(players[shot.owner], shot.aim, shot.gunLen)} :
       \E ws \in {Fire(System, shot.weapon, m[1], m[2], shot.aim, shot.owner,
                        shot.charge, shot.mineMode, players, rnd)} :
              /\ Becomes(ws)
              /\ op' = [NoOp EXCEPT !.name = "fire", !.weapon = shot.weapon,
                                    !.x = m[1], !.y = m[2], !.aim = shot.aim,
                                    !.owner = shot.owner,
                                    !.charge = shot.charge, !.rnd = rnd,
                                    !.queueBefore = pendingExplosions,
                                    !.projBefore = projectiles,
                                    !.xlog = ws.xlog, !.dcalls = ws.dcalls, !.visited = ws.visited]
              /\ fires' = fires + 1
              /\ UNCHANGED ticks

FireCall == FireWith(Shots)

\* The seeds that matter to an update: it draws random numbers only when a
\* cluster parent splits.
UpdateSeeds ==
    IF \E k \in DOMAIN projectiles : projectiles[k].alive /\ Splits(projectiles[k])
    THEN {0, 1}
    ELSE {0}

\* weapons.update(dt, players) with the frame time of the caller's loop.
UpdateBody ==
    \E dt \in {frame}, rnd \in UpdateSeeds :
    \E ws \in {Update(System, dt, players, wrapScreen, rnd)} :
        /\ Becomes(ws)
        /\ op' = [NoOp EXCEPT !.name = "update",
                              !.queueBefore = pendingExplosions,
                              !.projBefore = projectiles,
                              !.xlog = ws.xlog, !.dcalls = ws.dcalls, !.visited = ws.visited,
                              !.flights = ws.flights]

\* A caller invokes weapons.update(dt, players).
UpdateCall ==
    /\ ticks < MaxTicks
    /\ UpdateBody
    /\ ticks' = ticks + 1
    /\ UNCHANGED fires

\* The caller drains the pending-explosion queue after update
\* (pendingExplosions.length = 0).
DrainCall ==
    /\ op.name = "update"
    /\ pendingExplosions # <<>>
    /\ pendingExplosions' = <<>>
    /\ op' = [NoOp EXCEPT !.name = "drain"]
    /\ detonated' = detonated \cup {op.xlog[k].pid : k \in DOMAIN op.xlog}
    /\ UNCHANGED <<tvars, projectiles, hitscanTracers, wrapScreen, players,
                   nextPid, nextEid, fires, ticks, frame, gvars>>

\* A caller invokes weapons.clear().
ClearCall ==
    /\ projectiles # <<>> \/ pendingExplosions # <<>> \/ hitscanTracers # <<>>
    /\ Becomes(Clear(System))
    /\ op' = [NoOp EXCEPT !.name = "clear", !.projBefore = projectiles,
                           !.queueBefore = pendingExplosions,
                           !.tracersBefore = hitscanTracers]
    /\ UNCHANGED <<fires, ticks>>

Next == FireCall \/ UpdateCall \/ DrainCall \/ ClearCall

\* The weapon system under a frame loop that keeps calling update while there
\* are projectiles, with cluster bombs fired in mine mode: every projectile
\* falls, lands or leaves the world, so the behaviours need no bound on the
\* number of updates.
MineShots == {shot \in Shots : shot.mineMode}

MineFireCall == FireWith(MineShots)

SteadyUpdateCall ==
    /\ projectiles # <<>>
    /\ UpdateBody
    /\ UNCHANGED <<fires, ticks>>

NextMines == MineFireCall \/ SteadyUpdateCall \/ DrainCall

\* Weak fairness of the update of a non-empty projectile list, the frame loop
\* calling update on every frame: WF_vars(SteadyUpdateCall) with
\* ENABLED <<SteadyUpdateCall>>_vars written out as the action's guard (an
\* update of a non-empty list always ages or removes a projectile).
UpdatesContinue ==
    []<>(projectiles = <<>>) \/ []<><<SteadyUpdateCall>>_vars

SpecMines == Init /\ [][NextMines]_vars /\ UpdatesContinue

Spec == Init /\ [][Next]_vars

\* -------------------------------------------------------------------- game
\* Math.abs(v)
Abs(v) == IF v < 0 THEN -v ELSE v

\* Quotient rounded towards zero.
Trunc(a, b) == IF a >= 0 THEN a \div b ELSE -((-a) \div b)

\* clamp(v, lo, hi)
Clamp(v, lo, hi) == IF v < lo THEN lo ELSE IF v > hi THEN hi ELSE v

\* Player.takeDamage(amount); health and amount in tenths.
TakeDamage(plr, amount) ==
    IF plr.dead THEN plr
    ELSE IF plr.health - amount <= 0 THEN [plr EXCEPT !.health = 0, !.dead = TRUE]
    ELSE [plr EXCEPT !.health = @ - amount]

\* Player.applyKnockback(ex, ey, force, radius); the upward bias is 0.2 here
\* (2 in the game).
ApplyKnockback(plr, ex, ey, force, radius) ==
    LET dx == Cx(plr) - ex
        dy == Cy(plr) - ey
        d  == Dist(ex, ey, Cx(plr), Cy(plr))
    IN  IF plr.dead \/ dx * dx + dy * dy > radius * radius \/ (dx = 0 /\ dy = 0)
        THEN plr
        ELSE [plr EXCEPT !.vx = @ + Trunc(dx * force * (radius - d), d * radius),
                         !.vy = @ + Trunc(dy * force * (radius - d), d * radius) - 2,
                         !.onGround = FALSE]

\* Player._resolveHorizontal(terrain); the probes are 0.1 inside the box here
\* (2 pixels in the game).
ResolveHorizontal(plr, terrain) ==
    LET edge == IF plr.vx > 0 THEN plr.x + plr.width ELSE plr.x
        hit  == \E cy \in {plr.y + 1, plr.y + plr.height \div 2, plr.y + plr.height - 1} :
                    IsSolid(terrain, Round(edge), Round(cy))
    IN  IF ~hit THEN plr
        ELSE [plr EXCEPT !.x = IF plr.vx > 0 THEN (edge \div 10) * 10 - plr.width
                               ELSE Ceil(edge) * 10,
                         !.vx = 0]

\* The offsets the vertical probes of a box are taken at: dx = 0.1, 0.5, ...
\* below width - 0.1 (1, 5, ... below width - 1 in the game).
ProbeOffsets(width) == {dx \in 1 .. width - 2 : dx % 4 = 1}

\* Player._resolveVertical(terrain)
ResolveVertical(plr, terrain) ==
    LET checkY == IF plr.vy >= 0 THEN Round(plr.y + plr.height) ELSE Round(plr.y)
        hit    == \E dx \in ProbeOffsets(plr.width) :
                      IsSolid(terrain, Round(plr.x + dx), checkY)
    IN  IF ~hit THEN [plr EXCEPT !.onGround = FALSE]
        ELSE IF plr.vy >= 0
        THEN [plr EXCEPT !.y = checkY * 10 - plr.height, !.vy = 0, !.onGround = TRUE]
        ELSE [plr EXCEPT !.y = (checkY + 1) * 10, !.vy = 0, !.onGround = FALSE]

\* Player._checkLava(terrain): 0.5 damage for each probe that stands in lava.
CheckLava(plr, terrain) ==
    LET feetY  == Round(plr.y + plr.height)
        probes == {dx \in 0 .. plr.width - 1 : dx % 4 = 0}
        inLava == {dx \in probes : \/ IsLava(terrain, Round(plr.x + dx), feetY)
                                   \/ IsLava(terrain, Round(plr.x + dx), feetY - 1)}
    IN  TakeDamage(plr, 5 * Cardinality(inLava))

\* Friction per frame, in hundredths: FRICTION ^ frictionMod on the ground
\* (sand 1.2, snow 0.4, else 1.0), AIR_FRICTION in the air.
FrictionPct(plr, terrain) ==
    LET surfaceMat == Get(terrain, Round(Cx(plr)), Round(plr.y + plr.height + 1))
    IN  IF ~plr.onGround THEN 98
        ELSE IF surfaceMat = SAND THEN 82
        ELSE IF surfaceMat = SNOW THEN 94
        ELSE 85

\* Player.updatePhysics(dt, terrain): GRAVITY is 0.4 per frame and
\* TERMINAL_VELOCITY 2.0 here, the drop that kills 1 pixel below the world.
UpdatePhysics(plr, dt, terrain) ==
    IF plr.dead THEN plr
    ELSE LET f  == dt \div 16
             p1 == [plr EXCEPT !.vy = Clamp(@ + 4 * f, -20, 20),
                               !.vx = Trunc(@ * FrictionPct(plr, terrain), 100)]
             p2 == ResolveHorizontal([p1 EXCEPT !.x = @ + p1.vx * f], terrain)
             p3 == ResolveVertical([p2 EXCEPT !.y = @ + p2.vy * f], terrain)
             p4 == IF p3.y > H10 + 10 THEN TakeDamage(p3, MAX_HEALTH) ELSE p3
         IN  CheckLava(p4, terrain)

\* A resolver whose direct hit is scaled by the distance like any other hit.
BlastDamageByDistance(exp, d, isDirectHit) ==
    (exp.damage * 10 * (exp.blastRadius - d)) \div exp.blastRadius

\* A resolver that applies the full damage to every actor in the blast.
BlastDamageFull(exp, d, isDirectHit) == exp.damage * 10

\* const falloff = isDirectHit ? 1 : 1 - (d / blastR); const dmg = dmgBase * falloff;
\* in tenths of a health point.
BlastDamage(exp, d, isDirectHit) ==
    IF isDirectHit THEN exp.damage * 10
    ELSE (exp.damage * 10 * (exp.blastRadius - d)) \div exp.blastRadius

\* The body of the resolver's loop over the players, for one event and the
\* player at index i: damage with linear falloff (none for a direct hit) and
\* knockback.
ResolveOn(plr, exp) ==
    LET dx == Cx(plr) - exp.x
        dy == Cy(plr) - exp.y
        d  == Dist(exp.x, exp.y, Cx(plr), Cy(plr))
        isDirectHit == exp.directHitPlayerIdx = plr.index
        dmg == BlastDamage(exp, d, isDirectHit)
    IN  IF plr.dead THEN plr
        ELSE IF isDirectHit \/ dx * dx + dy * dy < exp.blastRadius * exp.blastRadius
        THEN ApplyKnockback(TakeDamage(plr, dmg), exp.x, exp.y, exp.knockback,
                            exp.blastRadius)
        ELSE plr

\* The resolver: for (const exp of this.weapons.pendingExplosions) { ... } from
\* event k on; the players after it and the events it applied.
RECURSIVE ResolveExplosions(_, _, _, _)
ResolveExplosions(plrs, queue, k, log) ==
    IF k > Len(queue) THEN [players |-> plrs, log |-> log, trace |-> <<>>]
    ELSE LET after == [i \in DOMAIN plrs |-> ResolveOn(plrs[i], queue[k])]
             rest  == ResolveExplosions(after, queue, k + 1, Append(log, queue[k].eid))
         IN  [rest EXCEPT !.trace = <<[exp |-> queue[k], before |-> plrs,
                                      after |-> after]>> \o @]

\* A tick that leaves the queue as the resolver found it.
DrainQueueKept(queue) == queue

\* this.weapons.pendingExplosions.length = 0
DrainQueue(queue) == <<>>

\* The round-end check: the first dead player ends the round if some player
\* is not dead; that player wins it.
CheckRoundEnd(plrs, st) ==
    LET dead  == {i \in DOMAIN plrs : plrs[i].dead}
        alive == {i \in DOMAIN plrs : ~plrs[i].dead}
    IN  IF dead = {} \/ alive = {} THEN [players |-> plrs, state |-> st]
        ELSE LET w == FirstIdx(alive)
             IN  [players |-> [plrs EXCEPT ![w].wins = @ + 1],
                  state |-> IF plrs[w].wins + 1 >= ROUNDS_TO_WIN
                            THEN "MATCH_OVER" ELSE "ROUND_OVER"]

\* World bounds: wrap or clamp a player horizontally.
WorldBounds(plr, wrap) ==
    IF plr.dead THEN plr
    ELSE IF wrap
    THEN [plr EXCEPT !.x = IF plr.x + plr.width < 0 THEN plr.x + W10
                           ELSE IF plr.x > W10 THEN plr.x - W10 ELSE plr.x]
    ELSE [plr EXCEPT !.x = Clamp(plr.x, 0, W10 - plr.width)]

\* The rounds the Game plays: the selected map, the wrap mode, and the spawn
\* points the map gives the two players (standing on its surface).
Rounds ==
    { [map |-> 1, wrap |-> FALSE, spawn |-> <<<<0, 0>>, <<40, 0>>>>],
      [map |-> 1, wrap |-> TRUE, spawn |-> <<<<0, 0>>, <<40, 0>>>>],
      [map |-> 3, wrap |-> FALSE, spawn |-> <<<<20, 20>>, <<40, -10>>>>] }

\* The round being played: the one whose map was painted last, in the wrap mode.
RoundOf(grid, wrap) == CHOOSE r \in Rounds : r.wrap = wrap /\ grid = Map(r.map)

\* Player.reset(spawnX, spawnY)
Reset(plr, spawn) ==
    [plr EXCEPT !.x = spawn[1], !.y = spawn[2], !.vx = 0, !.vy = 0,
                !.health = MAX_HEALTH, !.dead = FALSE, !.onGround = FALSE]

\* The fire calls a tick of the Game makes for the human (player 0) and for the
\* AI (player 1), from the muzzle.
GameShots(owner) ==
    IF owner = 0
    THEN { Shot(0, "sniper", <<10, 0>>, 10, FALSE),
           Shot(0, "rocket", <<10, 0>>, 10, FALSE),
           Shot(0, "digger", <<10, 0>>, 10, FALSE) }
    ELSE { Shot(1, "sniper", <<-10, 0>>, 10, FALSE),
           Shot(1, "cluster", <<0, 10>>, 0, FALSE) }

\* No fire call this tick.
NoShot == [Shot(0, "rocket", <<10, 0>>, 10, FALSE) EXCEPT !.owner = -1]

\* The weapon system after the fire call of a tick, if the tick makes one.
GameFire(ws, plrs, shot, rnd) ==
    IF shot.owner = -1 THEN ws
    ELSE LET m == Muzzle(plrs[shot.owner], shot.aim, shot.gunLen)
         IN  Fire(ws, shot.weapon, m[1], m[2], shot.aim, shot.owner, shot.charge,
                  shot.mineMode, plrs, rnd)

\* The human's melee fire pushes the player 0.4 * meleeRange along a
\* near-horizontal aim (within 30 degrees of it).
MeleePush(plr, shot) ==
    IF shot.owner = plr.index /\ WEAPONS[shot.weapon].melee /\ 2 * Abs(shot.aim[2]) < 10
    THEN [plr EXCEPT !.x = @ + Trunc(shot.aim[1] * 4 * WEAPONS[shot.weapon].meleeRange, 100),
                     !.y = @ + Trunc(shot.aim[2] * 4 * WEAPONS[shot.weapon].meleeRange, 100)]
    ELSE plr

\* The Game between two frames: the weapon system and terrain ws, the players,
\* the state and the grid the generator painted.
GameOf(ws, plrs, st, grid) == [ws |-> ws, players |-> plrs, state |-> st, painted |-> grid]

\* _startRound(): the map is generated again, the players reset to their spawn
\* points, the weapon system cleared; the countdown starts.
StartRound(g, wrap) ==
    LET r == RoundOf(g.painted, wrap)
    IN  GameOf([Clear(g.ws) EXCEPT !.data = Map(r.map), !.dirty = TRUE],
               [i \in DOMAIN g.players |-> Reset(g.players[i], r.spawn[i + 1])],
               "COUNTDOWN", Map(r.map))

\* _returnToMenu(): the wins are forgotten and the weapon system cleared.
ReturnToMenu(g) ==
    GameOf(Clear(g.ws), [i \in DOMAIN g.players |-> [g.players[i] EXCEPT !.wins = 0]],
           "MENU", g.painted)

\* The Game as the variables hold it.
Game == GameOf(System, players, state, painted)

\* The variables after a frame that left the Game as g.
GameBecomes(g) ==
    /\ projectiles' = g.ws.projectiles
    /\ pendingExplosions' = g.ws.pendingExplosions
    /\ hitscanTracers' = g.ws.hitscanTracers
    /\ data' = g.ws.data
    /\ dirty' = g.ws.dirty
    /\ nextPid' = g.ws.nextPid
    /\ nextEid' = g.ws.nextEid
    /\ players' = g.players
    /\ state' = g.state
    /\ painted' = g.painted
    /\ before' = data
    /\ detonated' = detonated \cup {op.xlog[k].pid : k \in DOMAIN op.xlog}
    /\ ticks' = ticks + 1
    /\ UNCHANGED <<calls, last, rendered, frame>>

\* A match in progress: a round being played on one of the maps, the human
\* with no win yet or one short of the match, the AI unhurt or wounded.
InitGame ==
    /\ InitWeapons
    /\ calls = 0
    /\ last = NoCall
    /\ rendered = [i \in Cells |-> AIR]
    /\ dirty = TRUE
    /\ frame \in {16, 32}
    /\ \E r \in Rounds, wins \in {0, ROUNDS_TO_WIN - 1}, health \in {MAX_HEALTH, 300} :
          /\ (wins = 0) = (health = MAX_HEALTH)
          /\ data = Map(r.map)
          /\ painted = data
          /\ before = data
          /\ wrapScreen = r.wrap
          /\ players =
                [i \in {0, 1} |->
                    LET plr == Player(i, r.spawn[i + 1][1], r.spawn[i + 1][2], FALSE)
                    IN  IF i = 0 THEN [plr EXCEPT !.wins = wins]
                        ELSE [plr EXCEPT !.health = health]]

\* A frame of _updateMenu that starts a match (_startMatch): the map and the
\* wrap mode selected in the menu, the wins reset, the round started.
UpdateMenu ==
    /\ state = "MENU"
    /\ ticks < MaxFrames
    /\ \E r \in Rounds :
          /\ wrapScreen' = r.wrap
          /\ GameBecomes(StartRound(
                 GameOf(System, [i \in DOMAIN players |-> [players[i] EXCEPT !.wins = 0]],
                        state, Map(r.map)),
                 r.wrap))
    /\ op' = [NoOp EXCEPT !.name = "menu"]
    /\ UNCHANGED <<fires, resolved, ctl>>

\* The frame of _updateCountdown in which the countdown runs out, or one in
\* which escape is pressed.
UpdateCountdown ==
    /\ state = "COUNTDOWN"
    /\ ticks < MaxFrames
    /\ \E escape \in BOOLEAN :
          GameBecomes(IF escape THEN ReturnToMenu(Game)
                      ELSE GameOf(System, players, "PLAYING", painted))
    /\ op' = [NoOp EXCEPT !.name = "countdown"]
    /\ UNCHANGED <<wrapScreen, fires, resolved, ctl>>

\* The frame of _updateRoundOver in which the timer runs out, or one in which
\* escape is pressed.
UpdateRoundOver ==
    /\ state = "ROUND_OVER"
    /\ ticks < MaxFrames
    /\ \E escape \in BOOLEAN :
          GameBecomes(IF escape THEN ReturnToMenu(Game) ELSE StartRound(Game, wrapScreen))
    /\ op' = [NoOp EXCEPT !.name = "roundOver"]
    /\ UNCHANGED <<wrapScreen, fires, resolved, ctl>>

\* A frame of _updateMatchOver in which a key or the mouse is pressed.
UpdateMatchOver ==
    /\ state = "MATCH_OVER"
    /\ ticks < MaxFrames
    /\ GameBecomes(ReturnToMenu(Game))
    /\ op' = [NoOp EXCEPT !.name = "matchOver"]
    /\ UNCHANGED <<wrapScreen, fires, resolved, ctl>>

\* The fire branch of _updatePlaying for the human, by weapon type: the player
\* after it and the fire call made, if any.  The calls pass the weapon, the
\* muzzle, the aim, the owner and (chargeable weapons) the charge: no mine mode
\* is passed and fire's parameter takes its default, false.
HumanFire(c, dead, mouseDown, mouseJustPressed, aim, now) ==
    LET w == WeaponAt(c.weaponIndex)
        Fired(c1, charge) ==
            [c |-> [ConsumeAmmo(c1) EXCEPT !.lastFireTime = now],
             shot |-> Shot(0, w.id, aim, charge, FALSE)]
        Idle(c1) == [c |-> c1, shot |-> [Shot(0, w.id, aim, 10, FALSE) EXCEPT !.owner = -1]]
    IN  IF w.sighted
        THEN LET c1 == IF mouseJustPressed /\ CanFire(c, dead, now)
                       THEN StartSighting(c, now) ELSE c
             IN  IF c1.sighting /\ (~mouseDown \/ GetSightFraction(c1, now) >= 10)
                 THEN Fired(ReleaseSighting(c1), 10)
                 ELSE Idle(c1)
        ELSE IF w.chargeable
        THEN LET c1 == IF mouseJustPressed /\ CanFire(c, dead, now)
                       THEN StartCharge(c, now) ELSE c
             IN  IF c1.charging /\ ~mouseDown
                 THEN Fired(ReleaseCharge(c1), GetCharge(c1, now))
                 ELSE Idle(c1)
        ELSE IF mouseDown /\ CanFire(c, dead, now)    \* melee and plain weapons
        THEN Fired(c, 10)
        ELSE Idle(c)

\* The weapon keys of a frame: '5' selects the weapon of index 4
\* (switchWeapon), 'q' the next weapon; each cancels a charge and a sighting.
SwitchKeys == {"none", "5", "q"}

SwitchWeapon(c, key) ==
    LET c1 == [c EXCEPT !.charging = FALSE, !.sighting = FALSE]
    IN  CASE key = "none" -> c
          [] key = "q" -> NextWeapon(c1)
          [] key = "5" -> SetWeapon(c1, 4)

\* The fire calls a player may make in a tick with n calls left: canFire needs
\* the player not dead, and the AI acts only while both players are alive.
TickShots(owner, n) ==
    IF n > 0 /\ ~players[owner].dead /\ (owner = 1 => ~players[0].dead)
    THEN {NoShot} \cup GameShots(owner)
    ELSE {NoShot}

\* The seeds that matter to a tick.
TickSeeds(shots) ==
    IF \/ \E k \in DOMAIN projectiles : projectiles[k].alive /\ Splits(projectiles[k])
       \/ \E sh \in shots : sh.owner # -1 /\ WEAPONS[sh.weapon].clusterCount > 0
    THEN {0, 1}
    ELSE {0}

\* One frame of _updatePlaying(dt, now): the human's fire, the AI's fire, the
\* players' physics, weapons.update, the resolver over the pending explosions
\* and the drain of the queue, the round-end check, the world bounds, and the
\* restart and escape keys.
PlayingFrame(human, ai, key) ==
       \E rnd \in TickSeeds({human, ai}) :
       \E plrs1 \in {[players EXCEPT ![0] = MeleePush(@, human)]} :
       \E ws2 \in {GameFire(GameFire(System, players, human, rnd), plrs1, ai, rnd)} :
       \E plrs2 \in {[i \in DOMAIN plrs1 |-> UpdatePhysics(plrs1[i], frame, ws2.data)]} :
       \E ws3 \in {Update(ws2, frame, plrs2, wrapScreen, rnd)} :
       \E res \in {ResolveExplosions(plrs2, ws3.pendingExplosions, 1, <<>>)} :
       \E ended \in {CheckRoundEnd(res.players, state)} :
          LET ws4   == [ws3 EXCEPT !.pendingExplosions = DrainQueue(@)]
              plrs3 == [i \in DOMAIN plrs1 |-> WorldBounds(ended.players[i], wrapScreen)]
              g     == GameOf(ws4, plrs3, ended.state, painted)
          IN  /\ GameBecomes(CASE key = "r" -> StartRound(g, wrapScreen)
                               [] key = "escape" -> ReturnToMenu(g)
                               [] OTHER -> g)
              /\ resolved' = resolved \o res.log
              /\ fires' = fires + Cardinality({sh \in {human, ai} : sh.owner # -1})
              /\ op' = [NoOp EXCEPT !.name = "tick",
                                    !.queueBefore = pendingExplosions,
                                    !.projBefore = ws2.projectiles,
                                    !.xlog = ws3.xlog, !.dcalls = ws3.dcalls, !.visited = ws3.visited,
                                    !.flights = ws3.flights,
                                    !.drained = ws3.pendingExplosions,
                                    !.trace = res.trace,
                                    !.healthBefore = [i \in DOMAIN players |->
                                                         players[i].health],
                                    !.winsBefore = [i \in DOMAIN players |->
                                                       players[i].wins]]

UpdatePlaying ==
    /\ state = "PLAYING"
    /\ ticks < MaxFrames
    /\ \E human \in TickShots(0, MaxShots - fires), key \in {"none", "r", "escape"} :
       \E ai \in TickShots(1, MaxShots - fires - (IF human.owner = -1 THEN 0 ELSE 1)) :
          PlayingFrame(human, ai, key)
    /\ UNCHANGED <<wrapScreen, ctl>>

NextGame ==
    UpdateMenu \/ UpdateCountdown \/ UpdatePlaying \/ UpdateRoundOver \/ UpdateMatchOver

SpecGame == InitGame /\ [][NextGame]_vars

\* -------------------------------------------------- the human's fire control
\* A round in progress on the first map, the players unhurt or wounded, the
\* human holding the grenade launcher or the cluster bomb with the ammo
\* untouched and no shot made yet in the round.
InitControl ==
    /\ projectiles = <<>>
    /\ pendingExplosions = <<>>
    /\ hitscanTracers = <<>>
    /\ nextPid = 1
    /\ nextEid = 1
    /\ fires = 0
    /\ ticks = 0
    /\ detonated = {}
    /\ op = NoOp
    /\ state = "PLAYING"
    /\ resolved = <<>>
    /\ calls = 0
    /\ last = NoCall
    /\ rendered = [i \in Cells |-> AIR]
    /\ dirty = TRUE
    /\ frame = 16
    /\ \E r \in {q \in Rounds : q.map = 1 /\ ~q.wrap},
          h0 \in {MAX_HEALTH, 600}, h1 \in {MAX_HEALTH, 50}, idx \in {2, 4} :
          /\ (h0 = MAX_HEALTH) = (h1 = MAX_HEALTH)
          /\ data = Map(r.map)
          /\ painted = data
          /\ before = data
          /\ wrapScreen = r.wrap
          /\ players =
                [i \in {0, 1} |->
                    [Player(i, r.spawn[i + 1][1], r.spawn[i + 1][2], FALSE)
                        EXCEPT !.health = IF i = 0 THEN h0 ELSE h1]]
          /\ ctl = [Control(StartTime) EXCEPT !.weaponIndex = idx]

\* One frame of _loop and _updatePlaying with the human's input: the mouse
\* button (held, just pressed), the aim (up and to the right, a lob towards
\* the AI) and a weapon key; then the AI's fire
\* (of its sniper rifle, if any) and the rest of the frame.  The frame's
\* timestamp is the last one plus dt.
ControlPlaying ==
    /\ state = "PLAYING"
    /\ ticks < MaxControlFrames
    /\ \E mouseDown \in BOOLEAN, mouseJustPressed \in BOOLEAN, key \in SwitchKeys,
          aim \in {<<8, -6>>} :
       \E now \in {ctl.now + frame} :
       \E hf \in {HumanFire(ctl, players[0].dead, mouseDown, mouseJustPressed, aim, now)} :
       \E ai \in {sh \in TickShots(1, MaxControlShots - fires) : ~WEAPONS[sh.weapon].chargeable} :
          /\ hf.shot.owner # -1 => fires < MaxControlShots
          /\ PlayingFrame(hf.shot, ai, "none")
          /\ ctl' = [SwitchWeapon(hf.c, key) EXCEPT
                        !.now = now,
                        !.shot = [fired |-> hf.shot.owner # -1,
                                  weapon |-> hf.shot.weapon,
                                  dead |-> players[0].dead,
                                  since |-> now - ctl.lastFireTime,
                                  cooldown |-> WeaponAt(ctl.weaponIndex).cooldown,
                                  hadAmmo |-> HasAmmo(ctl),
                                  mineMode |-> ctl.clusterMineMode,
                                  pid |-> nextPid,
                                  aiFired |-> ai.owner # -1,
                                  aiDead |-> players[1].dead]]
    /\ UNCHANGED wrapScreen

NextControl == ControlPlaying

SpecControl == InitControl /\ [][NextControl]_vars

\* ------------------------------------------------------------------ claims
\* Cell coordinates of a cell index.
CellX(i) == i % WORLD_WIDTH
CellY(i) == i \div WORLD_WIDTH

\* Squared distance, in whole cells, of cell i from the centre cell of the last call
\* (destroyCircle measures from the centre rounded to the cell grid).
LastD2(i) ==
    (CellX(i) - Round(last.cx)) * (CellX(i) - Round(last.cx)) +
    (CellY(i) - Round(last.cy)) * (CellY(i) - Round(last.cy))

\* Cell i lies within distance radius of the centre of the last call.
LastInDisc(i) == 100 * LastD2(i) <= last.radius * last.radius

\* power * (1 - 0.6 * dist / radius) >= resistance for cell i and the last call:
\* power * radius - resistance * radius >= 0.6 * power * dist, on the squares.
\* With radius = 0 the quotient is 0/0 and the comparison is false.
LastPowerSuffices(i, resistance) ==
    /\ last.radius > 0
    /\ last.power * last.radius >= resistance * last.radius
    /\ 100 * (last.power * last.radius - resistance * last.radius)
           * (last.power * last.radius - resistance * last.radius)
         >= 3600 * last.power * last.power * LastD2(i)

\* C8: after any sequence of destroyCircle calls, every cell that held Lava
\* before the sequence (as painted) still holds Lava.
C8_LavaIndestructible ==
    \A i \in Cells : painted[i] = LAVA => data[i] = LAVA

\* C8 witness: a call whose disc covered a Lava cell with enough power to clear
\* a material of resistance 1.0 there, and which did clear other cells.
C8_Witness ==
    /\ last.op = "destroyCircle"
    /\ last.ret > 0
    /\ \E i \in Cells : /\ before[i] = LAVA
                        /\ LastInDisc(i)
                        /\ LastPowerSuffices(i, 10)

\* The cells the claim C9 says are set to Air by the last call.
C9_Expected ==
    {i \in Cells : /\ LastInDisc(i)
                   /\ before[i] # AIR
                   /\ before[i] # LAVA
                   /\ LastPowerSuffices(i, MAT_RESISTANCE[before[i]])}

\* C9: destroyCircle sets to Air exactly the in-bounds cells within distance
\* radius of the (rounded) centre that hold neither Air nor Lava and satisfy
\* power * (1 - 0.6 * dist / radius) >= resistance; it returns their number.
C9_ExactCrater ==
    last.op = "destroyCircle" =>
        /\ \A i \in Cells : data[i] = (IF i \in C9_Expected THEN AIR ELSE before[i])
        /\ last.ret = Cardinality(C9_Expected)

\* C9 witness: a call with an off-grid centre that cleared some cells of its disc
\* and spared a solid cell of the disc whose resistance the decayed power missed.
C9_Witness ==
    /\ last.op = "destroyCircle"
    /\ last.cx % 10 # 0
    /\ last.ret > 0
    /\ \E i \in Cells : /\ LastInDisc(i)
                        /\ before[i] \notin {AIR, LAVA}
                        /\ data[i] = before[i]
                        /\ last.power >= MAT_RESISTANCE[before[i]]

\* C10: a second destroyCircle with the same centre, radius and power directly
\* after a first one returns 0 and changes no cell.
C10_Idempotent ==
    (last.op = "destroyCircle" /\ last.repeat) =>
        (last.ret = 0 /\ data = before)

\* C10 witness: the repeated call follows a first call that destroyed cells.
C10_Witness ==
    /\ last.op = "destroyCircle"
    /\ last.repeat
    /\ last.prevRet > 0

\* The events the last call appended to the pending-explosion queue.
NewEvents ==
    SubSeq(pendingExplosions, Len(op.queueBefore) + 1, Len(pendingExplosions))

\* The _explode calls of the last weapons.update, as a set of positions in its log.
Detonations == DOMAIN op.xlog

\* The projectile with the given id in a list, as a set of positions.
Holding(list, pid) == {j \in DOMAIN list : list[j].pid = pid}

\* C1: a projectile detonates at most once in its lifetime, and only while
\* alive; a detonation that does not split appends exactly one explosion event,
\* the split of a cluster parent appends none and destroys no terrain; hence no
\* projectile is the source of more than one event.
C1_OneExplosionEach ==
    op.name = "update" =>
        /\ \A k \in Detonations :
              /\ op.xlog[k].wasAlive
              /\ op.xlog[k].pid \notin detonated
              /\ \A j \in Detonations : op.xlog[j].pid = op.xlog[k].pid => j = k
              /\ op.xlog[k].events = (IF op.xlog[k].split THEN 0 ELSE 1)
              /\ op.xlog[k].split => ~op.xlog[k].terrainChanged
              /\ \A j \in Holding(projectiles, op.xlog[k].pid) : ~projectiles[j].alive
        /\ Len(NewEvents) = Cardinality({k \in Detonations : ~op.xlog[k].split})
        /\ \A n \in DOMAIN NewEvents :
              /\ NewEvents[n].src \notin detonated
              /\ \E k \in Detonations : /\ ~op.xlog[k].split
                                        /\ op.xlog[k].pid = NewEvents[n].src
              /\ \A m \in DOMAIN NewEvents : NewEvents[m].src = NewEvents[n].src => m = n

\* C1 witness: an update visited a projectile that had detonated in an earlier
\* update (still listed, dead), and in the same update another projectile
\* detonated and appended its one event.
C1_Witness ==
    /\ op.name = "update"
    /\ \E v \in DOMAIN op.visited : op.visited[v].pid \in detonated
    /\ \E k \in Detonations : ~op.xlog[k].split /\ op.xlog[k].events = 1

\* C1 witness for the split: a cluster parent split over solid ground it could
\* have dug (its own terrain radius reaches a destructible cell) and dug nothing.
C1_SplitWitness ==
    /\ op.name = "update"
    /\ \E k \in Detonations :
          /\ op.xlog[k].split
          /\ op.xlog[k].events = 0
          /\ \E i \in Cells :
                /\ before[i] \notin {AIR, LAVA}
                /\ 100 * ((CellX(i) - Round(op.xlog[k].x)) * (CellX(i) - Round(op.xlog[k].x))
                         + (CellY(i) - Round(op.xlog[k].y)) * (CellY(i) - Round(op.xlog[k].y)))
                      <= 14 * 14

\* C2: weapons.update removes and reorders no event that was queued before it:
\* the queue at entry is a prefix of the queue at exit, so that events appended
\* by fire come before the events of the update that follows.
C2_QueueOnlyGrows ==
    op.name = "update" =>
        /\ Len(pendingExplosions) >= Len(op.queueBefore)
        /\ SubSeq(pendingExplosions, 1, Len(op.queueBefore)) = op.queueBefore

\* C2 witness: an update entered with an event of a fire call queued (src 0:
\* hitscan) and appended the event of a projectile behind it.
C2_Witness ==
    /\ op.name = "update"
    /\ op.queueBefore # <<>>
    /\ \E n \in DOMAIN op.queueBefore : op.queueBefore[n].src = 0
    /\ Len(pendingExplosions) > Len(op.queueBefore)
    /\ pendingExplosions[Len(pendingExplosions)].src > 0

\* C3: every explosion event ever appended has been applied by the resolver of
\* a PLAYING tick exactly once, in the tick that found it in the queue after
\* weapons.update, and the queue is empty when the tick ends: no event is
\* applied in two ticks, none is left unapplied.
C3_AppliedOnceThenDrained ==
    /\ pendingExplosions = <<>>
    /\ \A e \in 1 .. nextEid - 1 :
          Cardinality({k \in DOMAIN resolved : resolved[k] = e}) = 1
    /\ op.name = "tick" =>
          /\ Len(resolved) >= Len(op.drained)
          /\ \A n \in DOMAIN op.drained :
                resolved[Len(resolved) - Len(op.drained) + n] = op.drained[n].eid

\* C3 witness: a tick after an earlier tick that applied events found in the
\* queue the event of a fire call of this tick and the event of a projectile
\* that detonated in its update, and a player lost health.
C3_Witness ==
    /\ op.name = "tick"
    /\ Len(resolved) > Len(op.drained)
    /\ \E n \in DOMAIN op.drained : op.drained[n].src = 0
    /\ \E n \in DOMAIN op.drained : op.drained[n].src > 0
    /\ \E i \in DOMAIN players : players[i].health < op.healthBefore[i]

\* The sub-munitions created during the last update.
Spawned == UNION {op.xlog[k].spawned : k \in Detonations}

\* C4: the sub-munitions appended to the projectile list during an update pass
\* are not processed in that pass, whatever dead projectiles the pass removes:
\* the pass visits exactly the projectiles listed at its start, once each, and
\* leaves every new sub-munition listed, alive, unmoved and at age 0 for the
\* next update.
C4_SubsWaitForNextPass ==
    op.name = "update" =>
        /\ Len(op.visited) = Len(op.projBefore)
        /\ \A j \in DOMAIN op.projBefore :
              Cardinality({v \in DOMAIN op.visited :
                              op.visited[v].pid = op.projBefore[j].pid}) = 1
        /\ \A k \in Detonations : \A s \in op.xlog[k].spawned :
              /\ \A v \in DOMAIN op.visited : op.visited[v].pid # s
              /\ Cardinality(Holding(projectiles, s)) = 1
              /\ \A j \in Holding(projectiles, s) :
                    /\ projectiles[j].alive
                    /\ projectiles[j].age = 0
                    /\ projectiles[j].x = op.xlog[k].x
                    /\ projectiles[j].y = op.xlog[k].y

\* C4 witness: one pass split a cluster parent and removed a dead projectile.
C4_Witness ==
    /\ op.name = "update"
    /\ Spawned # {}
    /\ \E v \in DOMAIN op.visited : ~op.visited[v].alive
    /\ Len(op.projBefore) >= 2

\* C4 witness for the next pass: a sub-munition created in an earlier update is
\* visited by a later one.
C4_NextPassWitness ==
    /\ op.name = "update"
    /\ \E v \in DOMAIN op.visited :
          \E j \in Holding(op.projBefore, op.visited[v].pid) :
              op.projBefore[j].isSub /\ op.projBefore[j].age = 0

\* C5: the detonation of a non-sub projectile of a weapon with clusterCount = N
\* appends exactly N projectiles, each alive, a sub-munition, and owned by the
\* parent's owner; the detonation of a sub-munition appends none.
C5_SplitSpawnsN ==
    op.name = "update" =>
        /\ \A k \in Detonations :
              LET e == op.xlog[k]
                  n == WEAPONS[e.weapon].clusterCount
              IN  /\ e.split = (n > 0 /\ ~e.isSub)
                  /\ Cardinality(e.spawned) = (IF n > 0 /\ ~e.isSub THEN n ELSE 0)
                  /\ \A s \in e.spawned :
                        /\ \A j \in DOMAIN op.projBefore : op.projBefore[j].pid # s
                        /\ Cardinality(Holding(projectiles, s)) = 1
                        /\ \A j \in Holding(projectiles, s) :
                              /\ projectiles[j].alive
                              /\ projectiles[j].isSub
                              /\ projectiles[j].ownerIndex = e.owner
                              /\ projectiles[j].weapon = e.weapon
                  /\ \A j \in Detonations : j # k => op.xlog[j].spawned \cap e.spawned = {}
        /\ Len(projectiles) = Len(op.projBefore)
                              - Cardinality({v \in DOMAIN op.visited : ~op.visited[v].alive})
                              + Cardinality(Spawned)

\* C5 witness: a sub-munition detonated (and spawned nothing).
C5_Witness ==
    /\ op.name = "update"
    /\ \E k \in Detonations : op.xlog[k].isSub /\ op.xlog[k].spawned = {}

\* C5 witness: a cluster parent of the second actor split into its sub-munitions.
C5_SplitWitness ==
    /\ op.name = "update"
    /\ \E k \in Detonations : /\ op.xlog[k].split
                              /\ op.xlog[k].owner = 1
                              /\ Cardinality(op.xlog[k].spawned) = 2

\* The sample points of the ray of the last fire call, as distances from the
\* origin, and the point at a distance.
RayDistances == {5 * n : n \in 1..7}
RayX(d) == op.x + (op.aim[1] * d) \div 10
RayY(d) == op.y + (op.aim[2] * d) \div 10

\* The ray leaves the off-screen margin, or meets solid terrain, at distance d.
RayBlocked(d) ==
    \/ RayX(d) < -10 \/ RayX(d) > W10 + 10 \/ RayY(d) < -20 \/ RayY(d) > H10 + 10
    \/ IsSolid(before, Round(RayX(d)), Round(RayY(d)))

\* The actors other than the owner, not dead, whose box holds the ray point at d.
RayActors(d) ==
    {a \in DOMAIN players : /\ a # op.owner
                            /\ ~players[a].dead
                            /\ InBox(RayX(d), RayY(d), players[a])}

\* The distances at which the ray stops.
RayStops == {d \in RayDistances : RayBlocked(d) \/ RayActors(d) # {}}

\* The actor the ray of the last fire call struck, or -1.
RayStruck ==
    IF RayStops = {} THEN -1
    ELSE LET d == CHOOSE m \in RayStops : \A n \in RayStops : m <= n
         IN  IF RayBlocked(d) THEN -1
             ELSE CHOOSE a \in RayActors(d) : \A b \in RayActors(d) : a <= b

\* C6: a hitscan fire creates no projectile and appends exactly one explosion
\* event, whose directHitPlayerIdx is the actor the ray struck first, or -1 when
\* it ended on terrain, beyond the margin or at its maximum distance, and never
\* the owner's index.
C6_HitscanOneEvent ==
    (op.name = "fire" /\ WEAPONS[op.weapon].hitscan) =>
        /\ projectiles = op.projBefore
        /\ Len(pendingExplosions) = Len(op.queueBefore) + 1
        /\ SubSeq(pendingExplosions, 1, Len(op.queueBefore)) = op.queueBefore
        /\ pendingExplosions[Len(pendingExplosions)].directHitPlayerIdx = RayStruck
        /\ pendingExplosions[Len(pendingExplosions)].directHitPlayerIdx # op.owner
        /\ pendingExplosions[Len(pendingExplosions)].ownerIndex = op.owner

\* C6 witness: a ray that started inside the owner's box passed through it and
\* struck the other actor, with a projectile in flight.
C6_Witness ==
    /\ op.name = "fire"
    /\ WEAPONS[op.weapon].hitscan
    /\ \E d \in RayDistances : InBox(RayX(d), RayY(d), players[op.owner])
    /\ pendingExplosions[Len(pendingExplosions)].directHitPlayerIdx = 1
    /\ projectiles # <<>>

\* C6 witness: a ray that ended on terrain.
C6_TerrainWitness ==
    /\ op.name = "fire"
    /\ WEAPONS[op.weapon].hitscan
    /\ RayStops # {}
    /\ RayStruck = -1

\* The actors the claim C7 names for the last fire call: not dead, centre
\* within meleeRange of the origin and within meleeArc of the aim direction.
MeleeReach ==
    {a \in DOMAIN players :
        /\ ~players[a].dead
        /\ (Cx(players[a]) - op.x) * (Cx(players[a]) - op.x)
             + (Cy(players[a]) - op.y) * (Cy(players[a]) - op.y)
             <= WEAPONS[op.weapon].meleeRange * WEAPONS[op.weapon].meleeRange
        /\ WithinArc(op.aim, Cx(players[a]) - op.x, Cy(players[a]) - op.y)}

\* C7: a melee fire creates no projectile and appends, for each live actor
\* within meleeRange and meleeArc, one explosion event whose
\* directHitPlayerIdx is that actor's index and whose damage is the weapon's.
C7_MeleeHitsActorsInReach ==
    (op.name = "fire" /\ WEAPONS[op.weapon].melee) =>
        /\ projectiles = op.projBefore
        /\ \A a \in MeleeReach :
              Cardinality({n \in DOMAIN NewEvents :
                              /\ NewEvents[n].directHitPlayerIdx = a
                              /\ NewEvents[n].damage = WEAPONS[op.weapon].damage}) = 1

\* The in-bounds cells of the disc of the last destroyCircle call.
LastDisc == {i \in Cells : LastInDisc(i)}

\* C11: a destroyCircle whose power is smaller than the resistance of the
\* material of every cell of the affected disc returns 0 and leaves the whole
\* grid unchanged.
C11_WeakPowerNoOp ==
    (/\ last.op = "destroyCircle"
     /\ \A i \in LastDisc : last.power < MAT_RESISTANCE[before[i]]) =>
        (last.ret = 0 /\ data = before)

\* C11 witness: a call with a positive radius and a positive power on a disc of
\* several cells, all of them destructible ground, one of them off the centre
\* with a resistance that six tenths of it would not have withstood.
C11_Witness ==
    /\ last.op = "destroyCircle"
    /\ last.power > 0
    /\ last.radius > 0
    /\ Cardinality(LastDisc) > 1
    /\ \A i \in LastDisc : last.power < MAT_RESISTANCE[before[i]]
    /\ \E i \in LastDisc : LastD2(i) > 0 /\ 2 * MAT_RESISTANCE[before[i]] < 3 * last.power

\* The coordinate of the last get or set call lies outside the world
\* [0, width) x [0, height).
LastOutOfBounds ==
    last.x < 0 \/ last.x >= W10 \/ last.y < 0 \/ last.y >= H10

C13_DirtyWhenChanged ==
    /\ [](data # rendered => dirty)
    /\ [][(dirty /\ ~dirty') => last'.op = "rebuild"]_vars

\* C13 witness: after a rebuild that drew the grid, a destroyCircle cleared
\* cells (and set the flag again).
C13_Witness ==
    /\ last.op = "destroyCircle"
    /\ last.ret > 0
    /\ rendered = before
    /\ rendered # data
    /\ dirty

\* The applications of the last tick's resolver to a live actor: the step n of
\* the resolver (one per event) and the actor's index i.
Applications ==
    {a \in (DOMAIN op.trace) \X (DOMAIN players) : ~op.trace[a[1]].before[a[2]].dead}

\* The event of an application, the actor before and after it, the distance
\* between the event's centre and the actor's centre, and whether the actor is
\* the event's direct-hit actor.
AppExp(a) == op.trace[a[1]].exp
AppBefore(a) == op.trace[a[1]].before[a[2]]
AppAfter(a) == op.trace[a[1]].after[a[2]]
AppDist(a) == Dist(AppExp(a).x, AppExp(a).y, Cx(AppBefore(a)), Cy(AppBefore(a)))
AppD2(a) ==
    (Cx(AppBefore(a)) - AppExp(a).x) * (Cx(AppBefore(a)) - AppExp(a).x)
        + (Cy(AppBefore(a)) - AppExp(a).y) * (Cy(AppBefore(a)) - AppExp(a).y)
AppDirect(a) == AppExp(a).directHitPlayerIdx = AppBefore(a).index

\* The actor of an application has taken the damage dmg (in tenths): its health
\* fell by dmg, to zero at the lowest, and it is dead if nothing is left.
AppTook(a, dmg) ==
    /\ AppAfter(a).health = Max(0, AppBefore(a).health - dmg)
    /\ AppAfter(a).dead = (AppBefore(a).health - dmg <= 0)

\* C14: a live actor whose index is the event's directHitPlayerIdx takes the
\* event's full damage, whatever its distance from the event's centre, beyond
\* the blast radius included.
C14_DirectHitFullDamage ==
    op.name = "tick" =>
        \A a \in Applications : AppDirect(a) => AppTook(a, AppExp(a).damage * 10)

\* C14 witness: a direct hit on a live actor whose centre is away from the
\* event's centre, and the actor survived it.
C14_Witness ==
    /\ op.name = "tick"
    /\ \E a \in Applications :
          /\ AppDirect(a)
          /\ AppDist(a) > 0
          /\ AppAfter(a).health > 0
          /\ AppAfter(a).health < AppBefore(a).health

\* C14 witness: a direct hit whose centre is farther from the actor's centre
\* than the blast radius.
C14_FarWitness ==
    /\ op.name = "tick"
    /\ \E a \in Applications :
          /\ AppDirect(a)
          /\ AppD2(a) > AppExp(a).blastRadius * AppExp(a).blastRadius
          /\ AppAfter(a).health < AppBefore(a).health

\* C15: a live actor that is not the event's direct-hit actor, the owner
\* included, takes baseDamage * (1 - distance / blastRadius) when its distance
\* is below the blast radius and nothing otherwise.
C15_LinearFalloff ==
    op.name = "tick" =>
        \A a \in Applications :
            ~AppDirect(a) =>
                IF AppD2(a) < AppExp(a).blastRadius * AppExp(a).blastRadius
                THEN AppTook(a, (AppExp(a).damage * 10
                                    * (AppExp(a).blastRadius - AppDist(a)))
                                  \div AppExp(a).blastRadius)
                ELSE /\ AppAfter(a).health = AppBefore(a).health
                     /\ ~AppAfter(a).dead

\* C15 witness: the owner of an event, not its direct-hit actor, stood inside
\* the blast away from its centre and lost part of the damage; another actor of
\* the same tick stood outside a blast and lost nothing.
C15_Witness ==
    /\ op.name = "tick"
    /\ \E a \in Applications :
          /\ ~AppDirect(a)
          /\ AppExp(a).ownerIndex = AppBefore(a).index
          /\ AppDist(a) > 0
          /\ AppD2(a) < AppExp(a).blastRadius * AppExp(a).blastRadius
          /\ AppAfter(a).health < AppBefore(a).health
          /\ AppAfter(a).health > AppBefore(a).health - AppExp(a).damage * 10
    /\ \E a \in Applications :
          /\ ~AppDirect(a)
          /\ AppD2(a) >= AppExp(a).blastRadius * AppExp(a).blastRadius

\* The falloff of an application as the fraction num / den: 1 for the
\* direct-hit actor, 1 - distance / blastRadius otherwise.
AppFalloffNum(a) ==
    IF AppDirect(a) THEN 1 ELSE AppExp(a).blastRadius - AppDist(a)
AppFalloffDen(a) ==
    IF AppDirect(a) THEN 1 ELSE AppExp(a).blastRadius

\* C16: every actor that takes damage from an event (here: and survives it,
\* away from the event's centre) receives knockback along the vector from the
\* event's centre to its centre, of magnitude knockback * falloff with the
\* falloff of the damage (1 for the direct-hit actor), plus the upward bias.
C16_KnockbackSameFalloff ==
    op.name = "tick" =>
        \A a \in Applications :
            (/\ AppDirect(a) \/ AppD2(a) < AppExp(a).blastRadius * AppExp(a).blastRadius
             /\ ~AppAfter(a).dead
             /\ AppDist(a) > 0) =>
                /\ AppAfter(a).vx = AppBefore(a).vx
                      + Trunc((Cx(AppBefore(a)) - AppExp(a).x) * AppExp(a).knockback
                                  * AppFalloffNum(a),
                              AppDist(a) * AppFalloffDen(a))
                /\ AppAfter(a).vy = AppBefore(a).vy
                      + Trunc((Cy(AppBefore(a)) - AppExp(a).y) * AppExp(a).knockback
                                  * AppFalloffNum(a),
                              AppDist(a) * AppFalloffDen(a)) - 2

\* The flights of the last update: one per in-flight projectile its loop moved.
Flights == DOMAIN op.flights

\* The straight path of flight n, from the position before the move to the
\* integrated position, has a point inside the box of plr (the points at
\* twentieths of the path are tried).
PathCrosses(n, plr) ==
    \E k \in 0 .. 20 :
        /\ 20 * op.flights[n].oldX + (op.flights[n].nx - op.flights[n].oldX) * k
              >= 20 * plr.x
        /\ 20 * op.flights[n].oldX + (op.flights[n].nx - op.flights[n].oldX) * k
              <= 20 * (plr.x + plr.width)
        /\ 20 * op.flights[n].oldY + (op.flights[n].ny - op.flights[n].oldY) * k
              >= 20 * plr.y
        /\ 20 * op.flights[n].oldY + (op.flights[n].ny - op.flights[n].oldY) * k
              <= 20 * (plr.y + plr.height)

\* The live actors, the grace-protected owner excepted, whose box the path of
\* flight n enters from outside.
Crossed(n) ==
    {pi \in DOMAIN players :
        /\ ~players[pi].dead
        /\ ~(pi = op.flights[n].owner /\ op.flights[n].age < 48)
        /\ ~InBox(op.flights[n].oldX, op.flights[n].oldY, players[pi])
        /\ PathCrosses(n, players[pi])}

\* C17: a live in-flight projectile whose straight path of the tick passes
\* through the box of a live actor other than its grace-protected owner, with no
\* solid terrain on the path, detonates on that actor in that tick, the actor
\* recorded as the direct hit (flights that wrap, leave the world, exceed their
\* range or reach their fuse in the tick are left out).
C17_ContinuousActorCollision ==
    op.name = "update" =>
        \A n \in Flights :
            (/\ ~op.flights[n].ended
             /\ ~op.flights[n].collided
             /\ op.flights[n].x = op.flights[n].nx
             /\ Crossed(n) # {}) =>
                \E k \in Detonations :
                    /\ op.xlog[k].pid = op.flights[n].pid
                    /\ op.xlog[k].idx \in Crossed(n)

\* C18: a landed mine has zero velocity, and no step moves it or gives it a
\* velocity while it is in the projectile list, whatever the step does to the
\* terrain: from its landing to its detonation its position does not change.
C18_LandedMineStaysPut ==
    /\ [](\A j \in DOMAIN projectiles :
              projectiles[j].landed =>
                  (projectiles[j].isMine /\ projectiles[j].vx = 0 /\ projectiles[j].vy = 0))
    /\ [][\A j \in DOMAIN projectiles :
              (projectiles[j].landed /\ projectiles[j].alive) =>
                  \A k \in DOMAIN projectiles' :
                      projectiles'[k].pid = projectiles[j].pid =>
                          /\ projectiles'[k].x = projectiles[j].x
                          /\ projectiles'[k].y = projectiles[j].y
                          /\ projectiles'[k].vx = 0
                          /\ projectiles'[k].vy = 0
                          /\ projectiles'[k].landed]_vars

\* C18 witness: a mine that had landed before the last update is still live
\* and landed after it, older than before.
C18_Witness ==
    /\ op.name = "update"
    /\ \E j \in DOMAIN projectiles, k \in DOMAIN op.projBefore :
          /\ projectiles[j].pid = op.projBefore[k].pid
          /\ op.projBefore[k].landed
          /\ projectiles[j].landed
          /\ projectiles[j].alive
          /\ projectiles[j].age > op.projBefore[k].age

\* C18 witness: a landed mine detonated in the last update while the terrain
\* changed in the same update.
C18_DetonationWitness ==
    /\ op.name = "update"
    /\ \E k \in DOMAIN op.projBefore, n \in Detonations :
          /\ op.projBefore[k].landed
          /\ op.xlog[n].pid = op.projBefore[k].pid
          /\ op.xlog[n].x = op.projBefore[k].x
          /\ op.xlog[n].y = op.projBefore[k].y

\* Flight n left the world over its right or left edge and was wrapped.
WrappedRight(n) == wrapScreen /\ op.flights[n].nx > W10
WrappedLeft(n) == wrapScreen /\ op.flights[n].nx < 0

\* The path of flight n across the edge, taken before and after the wrap,
\* touches no solid cell, and no live actor's box holds its end: nothing at the
\* place the projectile flies through stops it.
FreePassage(n) ==
    /\ ~op.flights[n].ended
    /\ ~CheckTerrainCollision(before, op.flights[n].nx, op.flights[n].ny,
                              op.flights[n].oldX, op.flights[n].oldY).collided
    /\ ~CheckTerrainCollision(before, op.flights[n].x, op.flights[n].ny,
                              op.flights[n].oldX + op.flights[n].x - op.flights[n].nx,
                              op.flights[n].oldY).collided
    /\ \A pi \in DOMAIN players :
          ~InBox(op.flights[n].x, op.flights[n].ny, players[pi])

\* C19: in wrap mode a projectile whose integrated x exceeds the world width
\* is at x - width when the tick ends, one whose x falls below 0 is at
\* x + width, it is still alive and its y is the integrated y (flights that a
\* solid cell or an actor on their way, the vertical cull, the range or the
\* fuse end are left out).
C19_WrapKeepsFlying ==
    op.name = "update" =>
        \A n \in Flights :
            ((WrappedRight(n) \/ WrappedLeft(n)) /\ FreePassage(n)
                /\ Len(op.projBefore) = 1) =>
                \E j \in DOMAIN projectiles :
                    /\ projectiles[j].pid = op.flights[n].pid
                    /\ projectiles[j].alive
                    /\ projectiles[j].x = (IF WrappedRight(n) THEN op.flights[n].nx - W10
                                           ELSE op.flights[n].nx + W10)
                    /\ projectiles[j].y = op.flights[n].ny

\* C20: when clear() has returned, the projectile list, the pending-explosion
\* queue and the tracer list are all empty and the terrain grid is as it was
\* before the call.
C20_ClearEmptiesAll ==
    op.name = "clear" =>
        /\ projectiles = <<>>
        /\ pendingExplosions = <<>>
        /\ hitscanTracers = <<>>
        /\ data = before

\* C20 witness: a clear that found projectiles, pending explosions and tracers,
\* on a grid that explosions had already changed.
C20_Witness ==
    /\ op.name = "clear"
    /\ op.projBefore # <<>>
    /\ op.queueBefore # <<>>
    /\ op.tracersBefore # <<>>
    /\ data # painted

\* The last call was a fire with a ballistic weapon (neither melee nor hitscan).
BallisticFire ==
    /\ op.name = "fire"
    /\ ~WEAPONS[op.weapon].melee
    /\ ~WEAPONS[op.weapon].hitscan

\* The projectiles the last fire call appended.
Fired == {j \in DOMAIN projectiles : j > Len(op.projBefore)}

\* C21: a fire call with a ballistic weapon appends exactly pellets live
\* projectiles, each at the given origin with age 0, bounce count 0, isSub false
\* and the given owner, keeps the projectiles that were there, appends no
\* explosion event and changes no terrain cell.
C21_FireSpawnsPellets ==
    BallisticFire =>
        /\ Len(projectiles) = Len(op.projBefore) + WEAPONS[op.weapon].pellets
        /\ SubSeq(projectiles, 1, Len(op.projBefore)) = op.projBefore
        /\ \A j \in Fired :
              /\ projectiles[j].alive
              /\ projectiles[j].x = op.x /\ projectiles[j].y = op.y
              /\ projectiles[j].age = 0 /\ projectiles[j].bounces = 0
              /\ ~projectiles[j].isSub
              /\ projectiles[j].ownerIndex = op.owner
              /\ projectiles[j].weapon = op.weapon
        /\ pendingExplosions = op.queueBefore
        /\ data = before

\* C21 witness: a fire with a weapon of several pellets, into a list that held
\* a projectile and a queue that held an event.
C21_Witness ==
    /\ BallisticFire
    /\ WEAPONS[op.weapon].pellets > 1
    /\ Cardinality(Fired) > 1
    /\ op.projBefore # <<>>
    /\ op.queueBefore # <<>>

\* The launch speed the weapon and the charge fraction of the last fire call
\* give: minSpeed + (maxSpeed - minSpeed) * chargeFraction for a chargeable
\* weapon, the weapon's speed otherwise.
LaunchSpeed ==
    IF WEAPONS[op.weapon].chargeable
    THEN IF op.charge = 0 THEN WEAPONS[op.weapon].minSpeed
         ELSE IF op.charge = 10 THEN WEAPONS[op.weapon].maxSpeed
         ELSE WEAPONS[op.weapon].minSpeed
                 + ((WEAPONS[op.weapon].maxSpeed - WEAPONS[op.weapon].minSpeed)
                        * op.charge) \div 10
    ELSE WEAPONS[op.weapon].speed

\* The direction of the projectile number j of the last fire call: the aim, or
\* the aim with the pellet's random spread.
LaunchDir(j) ==
    IF WEAPONS[op.weapon].pellets > 1
    THEN SpreadDir(op.aim, op.rnd, j - Len(op.projBefore) - 1)
    ELSE op.aim

\* C22: every projectile a fire call creates is launched with the speed
\* minSpeed at charge 0, maxSpeed at charge 1 and the interpolation in between
\* for a chargeable weapon, and with the weapon's fixed speed for any charge
\* otherwise: its velocity is that speed along its direction.
C22_LaunchSpeed ==
    BallisticFire =>
        \A j \in Fired :
            /\ projectiles[j].vx = Mul(LaunchDir(j)[1], LaunchSpeed)
            /\ projectiles[j].vy = Mul(LaunchDir(j)[2], LaunchSpeed)

\* C22 witness: a chargeable weapon fired with a charge strictly between 0 and
\* 1, its projectile moving.
C22_Witness ==
    /\ BallisticFire
    /\ WEAPONS[op.weapon].chargeable
    /\ op.charge > 0 /\ op.charge < 10
    /\ \E j \in Fired : projectiles[j].vx # 0 /\ projectiles[j].vy # 0

\* C22 witness: a chargeable weapon fired with charge 0.
C22_MinWitness ==
    /\ BallisticFire
    /\ WEAPONS[op.weapon].chargeable
    /\ op.charge = 0
    /\ \E j \in Fired : projectiles[j].vx = WEAPONS[op.weapon].minSpeed

\* C22 witness: a weapon that is not chargeable fired with a charge below 1.
C22_FixedWitness ==
    /\ BallisticFire
    /\ ~WEAPONS[op.weapon].chargeable
    /\ op.charge < 10
    /\ \E j \in Fired : projectiles[j].vx # 0

\* The _explode calls of the last update on the projectile of flight n, and the
\* places the projectile of flight n holds in the list after the update.
FlightDetonations(n) == {k \in Detonations : op.xlog[k].pid = op.flights[n].pid}
FlightAfter(n) == Holding(projectiles, op.flights[n].pid)

\* A live actor other than the grace-protected owner whose box holds the
\* point (x, y) reached by flight n.
ActorsAt(n, x, y) ==
    {pi \in DOMAIN players :
        /\ ~players[pi].dead
        /\ ~(pi = op.flights[n].owner /\ op.flights[n].age < 48)
        /\ InBox(x, y, players[pi])}

\* C23: the checks on a moved projectile run in the order bounds cull, range
\* cull, fuse, terrain, actors, and the first that applies ends its turn: a
\* culled projectile is removed with no _explode call and no event even when
\* its fuse is due, a fuse detonation is at the integrated position (not at a
\* terrain sample), and a projectile that touches terrain records no direct hit.
C23_CheckOrder ==
    op.name = "update" =>
        \A n \in Flights :
            /\ (op.flights[n].culled \/ op.flights[n].ranged) =>
                  /\ FlightDetonations(n) = {}
                  /\ \A e \in DOMAIN NewEvents : NewEvents[e].src # op.flights[n].pid
                  /\ FlightAfter(n) # {}
                  /\ \A j \in FlightAfter(n) : ~projectiles[j].alive
            /\ (~op.flights[n].culled /\ ~op.flights[n].ranged /\ op.flights[n].fuseDue) =>
                  /\ FlightDetonations(n) # {}
                  /\ \A k \in FlightDetonations(n) :
                        /\ op.xlog[k].x = op.flights[n].x
                        /\ op.xlog[k].y = op.flights[n].ny
                        /\ op.xlog[k].idx = -1
            /\ (~op.flights[n].ended /\ op.flights[n].collided) =>
                  \A k \in FlightDetonations(n) : op.xlog[k].idx = -1

\* C23 witness: a projectile left the bounds in the tick its fuse was due.
C23_Witness ==
    /\ op.name = "update"
    /\ \E n \in Flights : op.flights[n].culled /\ op.flights[n].fuseDue

\* C23 witness: a fuse detonation in a tick in which the path met terrain at a
\* sample other than the integrated position.
C23_FuseWitness ==
    /\ op.name = "update"
    /\ \E n \in Flights :
          /\ ~op.flights[n].culled /\ op.flights[n].fuseDue /\ op.flights[n].collided
          /\ <<op.flights[n].hitX, op.flights[n].hitY>> # <<op.flights[n].x, op.flights[n].ny>>
          /\ FlightDetonations(n) # {}

\* C23 witness: a projectile detonated on terrain in a tick in which its
\* integrated position lay inside an actor's box.
C23_TerrainWitness ==
    /\ op.name = "update"
    /\ \E n \in Flights :
          /\ ~op.flights[n].ended /\ op.flights[n].collided
          /\ ActorsAt(n, op.flights[n].x, op.flights[n].ny) # {}
          /\ FlightDetonations(n) # {}

\* The projectile of flight n as it was before the update.
FlightBefore(n) == Holding(op.projBefore, op.flights[n].pid)

\* No other projectile's detonation changed the terrain in the last update: the
\* path of flight n was tested against the grid as it was before the update.
TerrainAsBefore(n) ==
    \A k \in Detonations :
        op.xlog[k].terrainChanged => op.xlog[k].pid = op.flights[n].pid

\* The samples of the path of flight n, from its position before the move to
\* its position after it, at steps of at most one pixel, that round to a solid
\* cell; and the first of them.
PathSteps(n) ==
    Steps(op.flights[n].oldX, op.flights[n].oldY, op.flights[n].x, op.flights[n].ny)
SolidSamples(n) ==
    {s \in 1 .. PathSteps(n) :
        IsSolid(before, SampleCell(op.flights[n].oldX, op.flights[n].x, s, PathSteps(n)),
                        SampleCell(op.flights[n].oldY, op.flights[n].ny, s, PathSteps(n)))}
FirstSolid(n) == CHOOSE s \in SolidSamples(n) : \A t \in SolidSamples(n) : s <= t
FirstSolidX(n) ==
    SamplePoint(op.flights[n].oldX, op.flights[n].x, FirstSolid(n), PathSteps(n))
FirstSolidY(n) ==
    SamplePoint(op.flights[n].oldY, op.flights[n].ny, FirstSolid(n), PathSteps(n))

\* C24: a moved projectile that is neither culled nor fuse-detonated, with a
\* sample of its path on a solid cell, bounces (back to the position before the
\* move), lands (at the first such sample's x) or detonates (at the first such
\* sample) in that tick; with no such sample it keeps its integrated position,
\* its bounce count and its flight, and detonates, if at all, at that position.
C24_FirstSolidSample ==
    op.name = "update" =>
        \A n \in Flights :
            (~op.flights[n].ended /\ TerrainAsBefore(n)) =>
                IF SolidSamples(n) = {}
                THEN /\ \A k \in FlightDetonations(n) :
                           /\ op.xlog[k].x = op.flights[n].x
                           /\ op.xlog[k].y = op.flights[n].ny
                     /\ \A j \in FlightAfter(n), b \in FlightBefore(n) :
                           /\ projectiles[j].x = op.flights[n].x
                           /\ projectiles[j].y = op.flights[n].ny
                           /\ projectiles[j].bounces = op.projBefore[b].bounces
                           /\ ~projectiles[j].landed
                ELSE \/ /\ FlightDetonations(n) = {}
                        /\ \E j \in FlightAfter(n), b \in FlightBefore(n) :
                              /\ projectiles[j].alive
                              /\ ~projectiles[j].landed
                              /\ projectiles[j].bounces = op.projBefore[b].bounces + 1
                              /\ projectiles[j].x = op.flights[n].oldX
                              /\ projectiles[j].y = op.flights[n].oldY
                     \/ /\ FlightDetonations(n) = {}
                        /\ \E j \in FlightAfter(n) :
                              /\ projectiles[j].alive
                              /\ projectiles[j].landed
                              /\ projectiles[j].x = FirstSolidX(n)
                              /\ projectiles[j].y = op.flights[n].oldY
                     \/ /\ FlightDetonations(n) # {}
                        /\ \A k \in FlightDetonations(n) :
                              /\ op.xlog[k].x = FirstSolidX(n)
                              /\ op.xlog[k].y = FirstSolidY(n)
                              /\ op.xlog[k].idx = -1

\* C24 witness: a projectile detonated at the first solid sample of a path
\* whose later samples and end were solid too or lay beyond it.
C24_Witness ==
    /\ op.name = "update"
    /\ \E n \in Flights :
          /\ ~op.flights[n].ended /\ TerrainAsBefore(n)
          /\ SolidSamples(n) # {}
          /\ FirstSolid(n) < PathSteps(n)
          /\ FlightDetonations(n) # {}

\* C24 witness: the path crossed a solid cell and ended in air beyond it.
C24_CrossingWitness ==
    /\ op.name = "update"
    /\ \E n \in Flights :
          /\ ~op.flights[n].ended /\ TerrainAsBefore(n)
          /\ SolidSamples(n) # {}
          /\ PathSteps(n) \notin SolidSamples(n)

\* C24 witness: a path with no solid sample, the projectile flying on.
C24_FreeWitness ==
    /\ op.name = "update"
    /\ \E n \in Flights :
          /\ ~op.flights[n].ended /\ TerrainAsBefore(n)
          /\ SolidSamples(n) = {}
          /\ PathSteps(n) > 1
          /\ \E j \in FlightAfter(n) : projectiles[j].alive

\* The way flight n really took across the world's edge, before the edge and
\* after it, has no sample on a solid cell.
ShortPathFree(n) ==
    /\ ~CheckTerrainCollision(before, op.flights[n].nx, op.flights[n].ny,
                              op.flights[n].oldX, op.flights[n].oldY).collided
    /\ ~CheckTerrainCollision(before, op.flights[n].x, op.flights[n].ny,
                              op.flights[n].oldX + op.flights[n].x - op.flights[n].nx,
                              op.flights[n].oldY).collided

\* C25: in wrap mode, in the tick in which a projectile wraps, solid cells
\* that do not lie on its short path across the edge never make it bounce,
\* land or detonate: with that path free it has no terrain contact in the tick.
C25_WrapCollidesOnShortPathOnly ==
    op.name = "update" =>
        \A n \in Flights :
            (/\ WrappedRight(n) \/ WrappedLeft(n)
             /\ ~op.flights[n].ended
             /\ TerrainAsBefore(n)
             /\ ShortPathFree(n)) =>
                /\ \A k \in FlightDetonations(n) : op.xlog[k].idx # -1
                /\ \A j \in FlightAfter(n), b \in FlightBefore(n) :
                      /\ projectiles[j].bounces = op.projBefore[b].bounces
                      /\ ~projectiles[j].landed

\* Flight n met terrain: its turn reached the terrain test and the test found
\* a solid sample.
TerrainContact(n) == ~op.flights[n].ended /\ op.flights[n].collided

\* The bounce rule for the terrain contact of flight n, the projectile being
\* at place b of the list before the update: below the weapon's budget the
\* bounce count grows by one, the projectile is back at its position before the
\* move, alive, with no _explode call and no event; otherwise it detonates.
BounceRule(n, b) ==
    IF op.projBefore[b].bounces < WEAPONS[op.projBefore[b].weapon].bounces
    THEN /\ FlightDetonations(n) = {}
         /\ \A e \in DOMAIN NewEvents : NewEvents[e].src # op.flights[n].pid
         /\ FlightAfter(n) # {}
         /\ \A j \in FlightAfter(n) :
               /\ projectiles[j].alive
               /\ projectiles[j].bounces = op.projBefore[b].bounces + 1
               /\ projectiles[j].x = op.flights[n].oldX
               /\ projectiles[j].y = op.flights[n].oldY
    ELSE /\ FlightDetonations(n) # {}
         /\ \A j \in FlightAfter(n) : ~projectiles[j].alive

\* No projectile's bounce count is above its weapon's bounce budget.
WithinBudget ==
    \A j \in DOMAIN projectiles :
        projectiles[j].bounces <= WEAPONS[projectiles[j].weapon].bounces

\* C26 as stated: the bounce count never exceeds the budget, and every terrain
\* contact follows the bounce rule: a bounce below the budget, a detonation at
\* the budget or with a budget of 0.
C26_BounceBudget ==
    /\ WithinBudget
    /\ op.name = "update" =>
          \A n \in Flights : \A b \in FlightBefore(n) :
              TerrainContact(n) => BounceRule(n, b)

\* C26 amended: the bounce count never exceeds the budget, and every terrain
\* contact of a projectile that is not a mine sub-munition follows the bounce
\* rule; a mine sub-munition lands, whatever the budget.
C26_BounceBudgetExceptMines ==
    /\ WithinBudget
    /\ op.name = "update" =>
          \A n \in Flights : \A b \in FlightBefore(n) :
              TerrainContact(n) =>
                  IF op.projBefore[b].isMine /\ op.projBefore[b].isSub
                  THEN /\ FlightDetonations(n) = {}
                       /\ \A j \in FlightAfter(n) :
                             projectiles[j].alive /\ projectiles[j].landed
                  ELSE BounceRule(n, b)

\* C26 witness: a terrain contact of a projectile that had used up its bounce
\* budget of at least 1 detonated it.
C26_Witness ==
    /\ op.name = "update"
    /\ \E n \in Flights : \E b \in FlightBefore(n) :
          /\ TerrainContact(n)
          /\ WEAPONS[op.projBefore[b].weapon].bounces > 0
          /\ op.projBefore[b].bounces = WEAPONS[op.projBefore[b].weapon].bounces
          /\ FlightDetonations(n) # {}

\* C26 witness: a terrain contact below the budget bounced the projectile.
C26_BounceWitness ==
    /\ op.name = "update"
    /\ \E n \in Flights : \E b \in FlightBefore(n) :
          /\ TerrainContact(n)
          /\ op.projBefore[b].bounces < WEAPONS[op.projBefore[b].weapon].bounces
          /\ \E j \in FlightAfter(n) : projectiles[j].bounces = 1
          /\ <<op.flights[n].hitX, op.flights[n].hitY>> # <<op.flights[n].oldX, op.flights[n].oldY>>

\* The fuse time of the weapon of flight n, and whether the projectile's age
\* after the move has reached it.
FuseTime(n) == WEAPONS[op.projBefore[CHOOSE b \in FlightBefore(n) : TRUE].weapon].fuseTime
FuseReached(n) == FuseTime(n) > 0 /\ op.flights[n].age >= FuseTime(n)

\* C27: a moved projectile of a weapon with a fuse that is not culled
\* detonates in the update in which its age reaches the fuse time, whatever it
\* touches and whatever bounces it has left; so no live projectile in flight
\* of such a weapon is ever as old as its fuse.
C27_FuseDetonates ==
    /\ \A j \in DOMAIN projectiles :
          (/\ projectiles[j].alive /\ ~projectiles[j].landed
           /\ WEAPONS[projectiles[j].weapon].fuseTime > 0) =>
              projectiles[j].age < WEAPONS[projectiles[j].weapon].fuseTime
    /\ op.name = "update" =>
          \A n \in Flights :
              (FuseReached(n) /\ ~op.flights[n].culled /\ ~op.flights[n].ranged) =>
                  /\ FlightDetonations(n) # {}
                  /\ \A j \in FlightAfter(n) : ~projectiles[j].alive

\* C27 witness: the fuse detonated a projectile whose path of the tick met
\* terrain while it had a bounce left.
C27_Witness ==
    /\ op.name = "update"
    /\ \E n \in Flights : \E b \in FlightBefore(n) :
          /\ FuseReached(n) /\ ~op.flights[n].culled
          /\ SolidSamples(n) # {} /\ TerrainAsBefore(n)
          /\ op.projBefore[b].bounces < WEAPONS[op.projBefore[b].weapon].bounces
          /\ FlightDetonations(n) # {}

\* C27 witness: the fuse detonated a projectile in free flight, away from
\* terrain and actors.
C27_FreeWitness ==
    /\ op.name = "update"
    /\ \E n \in Flights :
          /\ FuseReached(n) /\ ~op.flights[n].culled
          /\ SolidSamples(n) = {} /\ TerrainAsBefore(n)
          /\ ActorsAt(n, op.flights[n].x, op.flights[n].ny) = {}
          /\ FlightDetonations(n) # {}

\* The mines that were landed and alive when the last update began, as places
\* of the list before the update.
LandedBefore ==
    {b \in DOMAIN op.projBefore :
        /\ op.projBefore[b].alive /\ op.projBefore[b].landed /\ op.projBefore[b].isMine}

\* The live actors, the owner included, whose centre is closer to the mine at
\* place b than the weapon's mineProximity.
Near(b) ==
    {pi \in DOMAIN players :
        /\ ~players[pi].dead
        /\ (op.projBefore[b].x - Cx(players[pi])) * (op.projBefore[b].x - Cx(players[pi]))
             + (op.projBefore[b].y - Cy(players[pi])) * (op.projBefore[b].y - Cy(players[pi]))
           < WEAPONS[op.projBefore[b].weapon].mineProximity
               * WEAPONS[op.projBefore[b].weapon].mineProximity}

\* The _explode calls of the last update on the mine at place b.
MineDetonations(b) == {k \in Detonations : op.xlog[k].pid = op.projBefore[b].pid}

\* The rule of a landed mine's turn: at its lifetime it detonates with no
\* direct hit, before that it detonates on the first near actor in index order,
\* and with no actor near it stays alive and landed.
MineRule(b) ==
    IF op.projBefore[b].age + frame >= WEAPONS[op.projBefore[b].weapon].mineLifetime
    THEN /\ MineDetonations(b) # {}
         /\ \A k \in MineDetonations(b) : op.xlog[k].idx = -1
    ELSE IF Near(b) # {}
    THEN /\ MineDetonations(b) # {}
         /\ \A k \in MineDetonations(b) :
               op.xlog[k].idx \in Near(b) /\ \A pi \in Near(b) : op.xlog[k].idx <= pi
    ELSE /\ MineDetonations(b) = {}
         /\ \E j \in Holding(projectiles, op.projBefore[b].pid) :
               projectiles[j].alive /\ projectiles[j].landed

\* The projectile pid is a live landed mine; it has detonated.
LandedMine(pid) ==
    \E j \in DOMAIN projectiles :
        projectiles[j].pid = pid /\ projectiles[j].alive /\ projectiles[j].landed
HasDetonated(pid) ==
    pid \in detonated \/ \E k \in Detonations : op.xlog[k].pid = pid

\* C28: in every update each landed mine follows the rule of its turn
\* (lifetime, else first near actor, else it stays), and under a loop that keeps
\* calling update every landed mine eventually detonates.
C28_MineDetonation ==
    /\ [](op.name = "update" => \A b \in LandedBefore : MineRule(b))
    /\ \A pid \in 1 .. 3 * MaxFires : LandedMine(pid) ~> HasDetonated(pid)

\* C28 witness: a landed mine younger than its lifetime detonated on its
\* owner, who was near it.
C28_Witness ==
    /\ op.name = "update"
    /\ \E b \in LandedBefore : \E k \in MineDetonations(b) :
          /\ op.projBefore[b].age + frame < WEAPONS[op.projBefore[b].weapon].mineLifetime
          /\ op.xlog[k].idx = op.projBefore[b].ownerIndex

\* C28 witness: a landed mine with no actor near it detonated at its lifetime,
\* after an update in which it had stayed.
C28_LifetimeWitness ==
    /\ op.name = "update"
    /\ \E b \in LandedBefore : \E k \in MineDetonations(b) :
          /\ Near(b) = {}
          /\ op.projBefore[b].age > frame
          /\ op.xlog[k].idx = -1

\* C28 witness: a landed mine with a dead actor's centre within its proximity
\* stayed.
C28_StayWitness ==
    /\ op.name = "update"
    /\ \E b \in LandedBefore :
          /\ MineDetonations(b) = {}
          /\ \E pi \in DOMAIN players : players[pi].dead

\* The sub-munitions that touched terrain in the last update, as pairs of a
\* flight and the projectile's place in the list before the update.
SubContacts ==
    {c \in Flights \X DOMAIN op.projBefore :
        /\ c[2] \in FlightBefore(c[1])
        /\ TerrainContact(c[1])
        /\ op.projBefore[c[2]].isSub}

\* The mine sub-munition of the contact c came to rest: alive, landed, with
\* zero velocity and its bounce count untouched, and nothing exploded.
CameToRest(c) ==
    /\ FlightDetonations(c[1]) = {}
    /\ \A e \in DOMAIN NewEvents : NewEvents[e].src # op.flights[c[1]].pid
    /\ \A k \in Detonations : ~op.xlog[k].terrainChanged \/ op.xlog[k].pid # op.flights[c[1]].pid
    /\ FlightAfter(c[1]) # {}
    /\ \A j \in FlightAfter(c[1]) :
          /\ projectiles[j].alive /\ projectiles[j].landed
          /\ projectiles[j].vx = 0 /\ projectiles[j].vy = 0
          /\ projectiles[j].bounces = op.projBefore[c[2]].bounces

\* C29: a sub-munition with isMine that touches terrain lands (zero velocity,
\* alive, no event, no terrain destroyed, no bounce used); one without isMine
\* detonates.
C29_MineSubLands ==
    op.name = "update" =>
        \A c \in SubContacts :
            IF op.projBefore[c[2]].isMine
            THEN CameToRest(c)
            ELSE /\ FlightDetonations(c[1]) # {}
                 /\ \A j \in FlightAfter(c[1]) : ~projectiles[j].alive

\* C29 witness: a mine sub-munition that was moving touched terrain and landed.
C29_Witness ==
    /\ op.name = "update"
    /\ \E c \in SubContacts :
          /\ op.projBefore[c[2]].isMine
          /\ op.projBefore[c[2]].vx # 0
          /\ \E j \in FlightAfter(c[1]) : projectiles[j].landed

\* C29 witness: a sub-munition without isMine touched terrain and detonated.
C29_DetonationWitness ==
    /\ op.name = "update"
    /\ \E c \in SubContacts :
          /\ ~op.projBefore[c[2]].isMine
          /\ FlightDetonations(c[1]) # {}

\* The flights of the last update that reached the actor test: not culled, not
\* out of range, no fuse due and no terrain on the path.
ActorTested == {n \in Flights : ~op.flights[n].ended /\ ~op.flights[n].collided}

\* The actors whose box holds the end position of flight n, dead or alive, the
\* owner included.
BoxesAt(n) ==
    {pi \in DOMAIN players : InBox(op.flights[n].x, op.flights[n].ny, players[pi])}

\* C30: no projectile in flight detonates on its owner while younger than the
\* grace period; apart from that a projectile that met no terrain detonates
\* exactly when its position is in the box of a live actor, on the first such
\* actor in index order, and never on a dead actor.
C30_ActorCollision ==
    op.name = "update" =>
        /\ \A n \in Flights : \A k \in FlightDetonations(n) :
              /\ op.flights[n].age < 48 => op.xlog[k].idx # op.flights[n].owner
              /\ op.xlog[k].idx \in DOMAIN players => ~players[op.xlog[k].idx].dead
        /\ \A n \in ActorTested :
              LET hits == ActorsAt(n, op.flights[n].x, op.flights[n].ny)
              IN  /\ FlightDetonations(n) # {} <=> hits # {}
                  /\ \A k \in FlightDetonations(n) :
                        op.xlog[k].idx \in hits /\ \A pi \in hits : op.xlog[k].idx <= pi

\* C30 witness: a projectile younger than the grace period ended a tick inside
\* its owner's box and flew on.
C30_Witness ==
    /\ op.name = "update"
    /\ \E n \in ActorTested :
          /\ op.flights[n].age < 48
          /\ op.flights[n].owner \in BoxesAt(n)
          /\ FlightDetonations(n) = {}
          /\ \E j \in FlightAfter(n) : projectiles[j].alive

\* C30 witness: a projectile detonated on a live actor whose box held it.
C30_HitWitness ==
    /\ op.name = "update"
    /\ \E n \in ActorTested : \E k \in FlightDetonations(n) :
          op.xlog[k].idx \in BoxesAt(n)

\* C30 witness: a projectile past the grace period detonated on its owner.
C30_OwnerWitness ==
    /\ op.name = "update"
    /\ \E n \in ActorTested : \E k \in FlightDetonations(n) :
          op.xlog[k].idx = op.flights[n].owner

\* C30 witness: a projectile ended a tick inside a dead actor's box and flew on.
C30_DeadWitness ==
    /\ op.name = "update"
    /\ \E n \in ActorTested :
          /\ \E pi \in BoxesAt(n) : players[pi].dead
          /\ FlightDetonations(n) = {}

\* The projectile of flight n was removed silently: dead, with no _explode
\* call, no event and no terrain destroyed on its account.
Silent(n) ==
    /\ FlightDetonations(n) = {}
    /\ \A e \in DOMAIN NewEvents : NewEvents[e].src # op.flights[n].pid
    /\ \A k \in Detonations : op.xlog[k].terrainChanged => op.xlog[k].pid # op.flights[n].pid
    /\ FlightAfter(n) # {}
    /\ \A j \in FlightAfter(n) : ~projectiles[j].alive

\* Flight n ended above or below the vertical margins (the upper margin is
\* wider in wrap mode), or beyond the horizontal margins.
VerticallyOut(n) ==
    \/ op.flights[n].ny < (IF wrapScreen THEN -40 ELSE -20)
    \/ op.flights[n].ny > H10 + 10
HorizontallyOut(n) ==
    op.flights[n].nx < -10 \/ op.flights[n].nx > W10 + 10

\* Flight n took its projectile, at place b before the update, beyond its
\* weapon's maxRange.
OutOfRange(n, b) ==
    /\ WEAPONS[op.projBefore[b].weapon].maxRange # 0
    /\ op.projBefore[b].distTravelled
         + Dist(op.flights[n].oldX, op.flights[n].oldY, op.flights[n].nx, op.flights[n].ny)
       > WEAPONS[op.projBefore[b].weapon].maxRange

\* C31: a projectile beyond the vertical margins is removed silently in both
\* modes, one beyond the horizontal margins is removed silently outside wrap
\* mode only (in wrap mode it is carried on), and one beyond its weapon's
\* maxRange is removed silently.
C31_SilentCull ==
    op.name = "update" =>
           \A n \in Flights : \A b \in FlightBefore(n) :
              /\ VerticallyOut(n) => Silent(n)
              /\ (~wrapScreen /\ HorizontallyOut(n)) => Silent(n)
              /\ OutOfRange(n, b) => Silent(n)
              /\ (wrapScreen /\ HorizontallyOut(n) /\ ~VerticallyOut(n) /\ ~OutOfRange(n, b)) =>
                    ~Silent(n)

\* C31 witness: in wrap mode a projectile beyond the vertical margin was culled.
C31_Witness ==
    /\ op.name = "update" /\ wrapScreen
    /\ \E n \in Flights : VerticallyOut(n) /\ Silent(n)

\* C31 witness: outside wrap mode a projectile within the vertical margins was
\* culled beyond a horizontal margin.
C31_HorizontalWitness ==
    /\ op.name = "update" /\ ~wrapScreen
    /\ \E n \in Flights : HorizontallyOut(n) /\ ~VerticallyOut(n) /\ Silent(n)

\* C31 witness: in wrap mode a projectile beyond a horizontal margin stayed alive.
C31_WrapWitness ==
    /\ op.name = "update" /\ wrapScreen
    /\ \E n \in Flights :
          /\ HorizontallyOut(n)
          /\ \E j \in FlightAfter(n) : projectiles[j].alive

\* C31 witness: a projectile inside all margins was removed beyond its range.
C31_RangeWitness ==
    /\ op.name = "update"
    /\ \E n \in Flights : \E b \in FlightBefore(n) :
          OutOfRange(n, b) /\ ~VerticallyOut(n) /\ ~HorizontallyOut(n) /\ Silent(n)

\* The projectiles that were already dead when the last update began, as
\* places of the list before the update.
DeadBefore == {b \in DOMAIN op.projBefore : ~op.projBefore[b].alive}

\* C32: a projectile that was dead when an update pass began is not moved,
\* collided, landed or detonated by the pass and is gone from the list when the
\* pass returns.
C32_DeadAreDropped ==
    op.name = "update" =>
        \A b \in DeadBefore :
            /\ \A n \in Flights : op.flights[n].pid # op.projBefore[b].pid
            /\ \A k \in Detonations : op.xlog[k].pid # op.projBefore[b].pid
            /\ \A e \in DOMAIN NewEvents : NewEvents[e].src # op.projBefore[b].pid
            /\ Holding(projectiles, op.projBefore[b].pid) = {}

\* C32 witness: an update pass began with a dead projectile in front of live
\* ones and moved a live one.
C32_Witness ==
    /\ op.name = "update"
    /\ \E b \in DeadBefore : \E c \in DOMAIN op.projBefore :
          /\ b < c /\ op.projBefore[c].alive
          /\ \E n \in Flights : op.flights[n].pid = op.projBefore[c].pid

\* C32 witness: an update pass began with a detonated cluster parent and its
\* live sub-munitions.
C32_ParentWitness ==
    /\ op.name = "update"
    /\ \E b \in DeadBefore : \E c \in DOMAIN op.projBefore :
          /\ op.projBefore[b].pid \in detonated
          /\ op.projBefore[c].isSub /\ op.projBefore[c].alive

\* The _explode calls of the last update that did not split a cluster parent.
PlainDetonations == {k \in Detonations : ~op.xlog[k].split}

\* The blast radius, damage, terrain-destruct multiplier and knockback of the
\* detonation k: the sub-variant for a sub-munition, the base stats otherwise.
BlastRadiusOf(k) ==
    IF op.xlog[k].isSub THEN WEAPONS[op.xlog[k].weapon].subBlastRadius
    ELSE WEAPONS[op.xlog[k].weapon].blastRadius
DamageOf(k) ==
    IF op.xlog[k].isSub THEN WEAPONS[op.xlog[k].weapon].subDamage
    ELSE WEAPONS[op.xlog[k].weapon].damage
MultiplierOf(k) ==
    IF op.xlog[k].isSub THEN WEAPONS[op.xlog[k].weapon].subTerrainDestruct
    ELSE WEAPONS[op.xlog[k].weapon].terrainDestruct
KnockbackOf(k) ==
    IF op.xlog[k].isSub THEN (WEAPONS[op.xlog[k].weapon].knockback * 6) \div 10
    ELSE WEAPONS[op.xlog[k].weapon].knockback

\* The events of the last update that the detonation k appended.
EventsOf(k) == {e \in DOMAIN NewEvents : NewEvents[e].src = op.xlog[k].pid}

\* C33: a detonation that does not split calls destroyCircle once, at the
\* projectile's position with radius blast radius x multiplier and power 3, and
\* appends one event with the position, the weapon, the owner, the blast
\* radius, the damage, the knockback (x 0.6 for a sub-munition) and the
\* direct-hit index; a sub-munition uses the sub-variant stats.
C33_DetonationEffect ==
    op.name = "update" =>
        \A k \in PlainDetonations : \A j \in Holding(projectiles, op.xlog[k].pid) :
            /\ Len(op.xlog[k].calls) = 1
            /\ op.xlog[k].calls[1].cx = projectiles[j].x
            /\ op.xlog[k].calls[1].cy = projectiles[j].y
            /\ op.xlog[k].calls[1].radius * 10 = BlastRadiusOf(k) * MultiplierOf(k)
            /\ op.xlog[k].calls[1].power = 30
            /\ Cardinality(EventsOf(k)) = 1
            /\ \A e \in EventsOf(k) :
                  /\ NewEvents[e].x = projectiles[j].x
                  /\ NewEvents[e].y = projectiles[j].y
                  /\ NewEvents[e].weapon = projectiles[j].weapon
                  /\ NewEvents[e].ownerIndex = projectiles[j].ownerIndex
                  /\ NewEvents[e].blastRadius = BlastRadiusOf(k)
                  /\ NewEvents[e].damage = DamageOf(k)
                  /\ NewEvents[e].knockback = KnockbackOf(k)
                  /\ NewEvents[e].directHitPlayerIdx = op.xlog[k].idx

\* C33 witness: a projectile that is no sub-munition detonated and its
\* destroyCircle call removed terrain.
C33_Witness ==
    /\ op.name = "update"
    /\ \E k \in PlainDetonations :
          /\ ~op.xlog[k].isSub
          /\ Len(op.xlog[k].calls) = 1
          /\ op.xlog[k].calls[1].to # op.xlog[k].calls[1].from

\* C33 witness: a sub-munition detonated on an actor.
C33_SubWitness ==
    /\ op.name = "update"
    /\ \E k \in PlainDetonations : op.xlog[k].isSub /\ op.xlog[k].idx >= 0

\* C35: no win count exceeds ROUNDS_TO_WIN, and while a player holds
\* ROUNDS_TO_WIN wins the game is in MATCH_OVER (no round runs or starts before
\* the return to the menu has reset the wins).
C35_MatchEndsAtRoundsToWin ==
    /\ \A i \in DOMAIN players : players[i].wins <= ROUNDS_TO_WIN
    /\ (\E i \in DOMAIN players : players[i].wins >= ROUNDS_TO_WIN) => state = "MATCH_OVER"

\* C36: a PLAYING tick whose round-end check found a dead player (the players
\* were not reset by a restart afterwards) has left PLAYING and given exactly
\* one win to a surviving player; so no player is dead while the game is in
\* PLAYING, also when both die in one tick.
C36_RoundEndsOnDeath ==
    /\ state = "PLAYING" => \A i \in DOMAIN players : ~players[i].dead
    /\ (op.name = "tick" /\ state # "MENU" /\ \E i \in DOMAIN players : players[i].dead) =>
          \E w \in DOMAIN players :
              /\ ~players[w].dead
              /\ players[w].wins = op.winsBefore[w] + 1
              /\ \A i \in DOMAIN players \ {w} : players[i].wins = op.winsBefore[i]

\* -------------------------------------------------------------------- C34
\* The projectiles the human's fire call of the frame put on the list.
HumanFired ==
    {k \in DOMAIN op.projBefore :
        /\ ctl.shot.fired
        /\ op.projBefore[k].pid >= ctl.shot.pid
        /\ op.projBefore[k].ownerIndex = 0}

\* The projectiles of the list after the frame that a cluster parent of the
\* human, detonating in the frame, split into.
HumanSubs ==
    {j \in DOMAIN projectiles :
        \E k \in DOMAIN op.xlog :
            /\ op.xlog[k].split
            /\ op.xlog[k].owner = 0
            /\ projectiles[j].pid \in op.xlog[k].spawned}

\* C34: when the human fires the cluster weapon, the fired parent carries
\* mineMode = the player's clusterMineMode at the call (true with the mode
\* toggled on, false with it off), and the sub-munitions a parent fired in the
\* frame splits into carry it as isMine.
C34_MineModeCarried ==
    ctl.shot.fired /\ ctl.shot.weapon = "cluster" =>
        /\ \A k \in HumanFired : op.projBefore[k].mineMode = ctl.shot.mineMode
        /\ \A j \in HumanSubs :
              (\E k \in HumanFired : \E e \in DOMAIN op.xlog :
                  /\ op.xlog[e].pid = op.projBefore[k].pid
                  /\ projectiles[j].pid \in op.xlog[e].spawned)
              => projectiles[j].isMine = ctl.shot.mineMode

\* -------------------------------------------------------------------- C37
\* C37: every fire call of a frame is made for a player that is alive; the
\* human's comes at least the fired weapon's cooldown after the human's
\* previous shot and with ammo left (or unlimited ammo) for the fired weapon,
\* also after weapon switches during a charge or a sighting; and no finite
\* ammo count is negative.  (The AI's calls are tested for the alive player
\* only: its timers are not part of the model.)
C37_FireOnlyWhenAble ==
    /\ ctl.shot.fired =>
          /\ ~ctl.shot.dead
          /\ ctl.shot.since >= ctl.shot.cooldown
          /\ ctl.shot.hadAmmo
    /\ ctl.shot.aiFired => ~ctl.shot.aiDead
    /\ \A id \in DOMAIN ctl.ammo : ctl.ammo[id] # <<>> => ctl.ammo[id][1] >= 0

\* -------------------------------------------------------------------- C38
\* The projectiles of the list after the last update that the update moved (it
\* was alive and no landed mine), are still alive and not landed, and were at a
\* non-solid position when the update began: places of the list.
FreeFliers ==
    {j \in DOMAIN projectiles :
        /\ projectiles[j].alive /\ ~projectiles[j].landed
        /\ \E n \in Flights : op.flights[n].pid = projectiles[j].pid
        /\ \E b \in Holding(op.projBefore, projectiles[j].pid) :
              ~IsSolid(before, Round(op.projBefore[b].x), Round(op.projBefore[b].y))}

\* C38: after an update pass, every live projectile that is no landed mine, was
\* processed by the pass and began it at a non-solid position is at a non-solid
\* position: integration, wrapping and bounces leave no live projectile
\* embedded in the terrain.
C38_NeverEmbedded ==
    op.name = "update" =>
        \A j \in FreeFliers :
            ~IsSolid(data, Round(projectiles[j].x), Round(projectiles[j].y))

\* C38 witness: a projectile touched the terrain in the update, bounced and is
\* alive at a non-solid position.
C38_Witness ==
    /\ op.name = "update"
    /\ \E j \in FreeFliers : \E n \in Flights :
          /\ op.flights[n].pid = projectiles[j].pid
          /\ op.flights[n].collided /\ ~op.flights[n].ended
          /\ IsSolid(before, Round(op.flights[n].hitX), Round(op.flights[n].hitY))
          /\ ~IsSolid(data, Round(projectiles[j].x), Round(projectiles[j].y))

\* C38 witness: a projectile was wrapped to the other side of the world and
\* flies on at a non-solid position.
C38_WrapWitness ==
    /\ op.name = "update"
    /\ \E j \in FreeFliers : \E n \in Flights :
          /\ op.flights[n].pid = projectiles[j].pid
          /\ op.flights[n].x # op.flights[n].nx
          /\ ~IsSolid(data, Round(projectiles[j].x), Round(projectiles[j].y))

\* -------------------------------------------------------------------- C39
\* The destroyCircle calls of the last fire or update call, as places in its log.
DestroyCalls == DOMAIN op.dcalls

\* The destroyCircle call c.
CallOf(c) == op.dcalls[c]

\* The cells destroyCircle call c changed.
ChangedBy(c) == {i \in Cells : CallOf(c).to[i] # CallOf(c).from[i]}

\* Cell i lies within the radius of call c of its centre (on the cell grid,
\* where destroyCircle measures it).
WithinRadius(c, i) ==
    100 * ((CellX(i) - Round(CallOf(c).cx)) * (CellX(i) - Round(CallOf(c).cx))
         + (CellY(i) - Round(CallOf(c).cy)) * (CellY(i) - Round(CallOf(c).cy)))
      <= CallOf(c).radius * CallOf(c).radius

\* C39: a destroyCircle call changes no cell farther than radius from its centre
\* and only turns solid cells (neither Air nor Lava) into Air; so over any
\* sequence of fire and update calls a cell that differs from the painted grid
\* was solid and is Air, and a fire or update call changes cells only through
\* its destroyCircle calls: the set of solid cells only shrinks.
C39_TerrainOnlyShrinks ==
    /\ \A c \in DestroyCalls : \A i \in ChangedBy(c) :
          /\ WithinRadius(c, i)
          /\ CallOf(c).from[i] \notin {AIR, LAVA}
          /\ CallOf(c).to[i] = AIR
    /\ \A i \in Cells :
          data[i] # painted[i] => (painted[i] \notin {AIR, LAVA} /\ data[i] = AIR)
    /\ op.name \in {"fire", "update"} =>
          \A i \in Cells :
              data[i] # before[i] => /\ before[i] \notin {AIR, LAVA}
                                     /\ data[i] = AIR
                                     /\ \E c \in DestroyCalls : i \in ChangedBy(c)

\* C39 witness: a detonation at the border of the world cleared cells of its
\* disc, left a solid cell outside the disc and a Lava or Air cell inside it as
\* they were, and part of its disc lies outside the world.
C39_Witness ==
    /\ op.name = "update"
    /\ \E c \in DestroyCalls :
          /\ ChangedBy(c) # {}
          /\ \E i \in Cells : ~WithinRadius(c, i) /\ CallOf(c).from[i] \notin {AIR, LAVA}
          /\ \E i \in Cells : WithinRadius(c, i) /\ CallOf(c).from[i] \in {AIR, LAVA}
          /\ \/ Round(CallOf(c).cx) * 10 < CallOf(c).radius
             \/ (WORLD_WIDTH - 1 - Round(CallOf(c).cx)) * 10 < CallOf(c).radius
             \/ (WORLD_HEIGHT - 1 - Round(CallOf(c).cy)) * 10 < CallOf(c).radius

\* C39 witness: after several detonations cells of the painted ground are Air.
C39_SequenceWitness ==
    /\ Cardinality(detonated) >= 2
    /\ \E i \in Cells : data[i] # painted[i]
    /\ \E i \in Cells : data[i] # before[i]

====
